---------------------------- MODULE Spec2Model ----------------------------
(***************************************************************************)
(* The skybox bake scheduler and per-frame presentation of clouds.js.      *)
(*                                                                         *)
(* The page is single threaded: main, newFrame and the event handlers run  *)
(* to completion, so each is one action.  What the GPU is asked to do in   *)
(* a handler is kept as the sequence of its draw calls (frameOps):         *)
(* a tile draw into a face texture attached to the framebuffer, or a face  *)
(* draw that samples a face texture.                                       *)
(***************************************************************************)
EXTENDS Integers, Sequences, FiniteSets, TLC

\* ------------------------------------------------------------ constants
SKYBOX_TILE_SIZE == 128
MAX_LIGHTNING_STAGES == 1
MAX_Y_TILES == 8
MAX_X_TILES == 8
\* the panel switch of renderNewSkybox has cases 0..5; the carry tests >= 6
PANEL_COUNT == 6
\* width and height of a face texture (loadSingleSkyboxTexture)
FACE_SIZE == 1024

\* ------------------------------------------------------------ bounds
\* the tminInput field is edited to the decimal strings of 0..MaxSetting
MaxSetting == 1
\* noise volume contents are drawn from 1..MaxNoise
MaxNoise == 2
\* renderNewSkybox calls counted past a full bake before the count saturates
MaxExtraCalls == 2
\* number of renderNewSkybox calls replayed by the restart comparison
MaxAdvance == 10
\* the ray-march fields are edited to the decimal strings of -1..MaxInput
MaxInput == 1

\* noiseBase before loadNoiseTexture has run (null): no texture, no bytes
NO_NOISE == [random |-> 0, unassigned |-> {}]

FullBake == MAX_LIGHTNING_STAGES * PANEL_COUNT * MAX_Y_TILES * MAX_X_TILES
MaxCalls == FullBake + MaxExtraCalls
SettingValues == 0..MaxSetting
NoiseValues == 1..MaxNoise
InputNumbers == (0 - 1)..MaxInput

VARIABLES
    pc,                    \* "load" before main, then "running" or "aborted"
    page,                  \* what main has done to the page: alerts, listeners, frame callback
    inputValues,           \* the value string of every input element of the page
    skyboxRenderingStage,  \* the bake cursor and the restart flag
    storedSettings,        \* the parameter globals fetchSettings writes
    noiseBase,             \* contents of the noise volume texture
    framebufferBinding,    \* GL framebuffer binding: "canvas" (null) or "frameBuffer"
    frameOps,              \* draw calls issued by the handler that ran last, in order
    bakeLog,               \* tile draws issued since the latest requestNewSkybox
    callsSinceRequest,     \* renderNewSkybox calls since the latest requestNewSkybox
    fragment,              \* one invocation of the fragment shader: its ray march
    lastMousePosition,     \* where updateMouse saw the mouse last, and whether it is inside
    player,                \* the camera angles pitchUp and yawRight turn
    skyboxRotation,        \* angle the skybox has turned about the y axis
    previousTimeStamp,     \* newFrame's timestamp of the frame before, in seconds
    skyBoxRotationMatrix,  \* the matrix shared by the bake and the presentation
    noiseLookup            \* one sampleDensity call of the fragment shader: its texel reads

vars == <<pc, page, inputValues, skyboxRenderingStage, storedSettings, noiseBase,
          framebufferBinding, frameOps, bakeLog, callsSinceRequest, fragment,
          lastMousePosition, player, skyboxRotation, previousTimeStamp,
          skyBoxRotationMatrix, noiseLookup>>

\* the camera, the clock and the shared matrix
viewVars == <<lastMousePosition, player, skyboxRotation, previousTimeStamp,
              skyBoxRotationMatrix>>

\* ------------------------------------------------------------ settings
\* the input elements fetchSettings reads, grouped by the global they are stored in
StepFields == <<"tminInput", "densityFalloffInput", "tmaxInput", "stepSizeInput">>
ColorFields == <<"skyColorInput", "darkColorInput", "lightColorInput">>
SunDirFields == <<"sunXInput", "sunYInput", "sunZInput">>
SunStepFields == <<"tsunMaxInput", "sunStepSizeInput">>
NoiseInputFields ==
    <<<<"noise1XInput", "noise1YInput", "noise1ZInput", "noise1ScaleInput">>,
      <<"noise2XInput", "noise2YInput", "noise2ZInput", "noise2ScaleInput">>,
      <<"noise3XInput", "noise3YInput", "noise3ZInput", "noise3ScaleInput">>,
      <<"noise4XInput", "noise4YInput", "noise4ZInput", "noise4ScaleInput">>,
      <<"noise5XInput", "noise5YInput", "noise5ZInput", "noise5ScaleInput">>>>
NoiseOutputFields ==
    <<<<"noise1SlopeInput", "noise1OffsetInput">>,
      <<"noise2SlopeInput", "noise2OffsetInput">>,
      <<"noise3SlopeInput", "noise3OffsetInput">>,
      <<"noise4SlopeInput", "noise4OffsetInput">>,
      <<"noise5SlopeInput", "noise5OffsetInput">>>>

Range(seq) == {seq[i] : i \in 1..Len(seq)}

NumberFields ==
    Range(StepFields) \cup Range(SunDirFields) \cup Range(SunStepFields)
        \cup {"lightAbsorptionInput", "fogInput"}
        \cup UNION {Range(NoiseInputFields[l]) : l \in 1..Len(NoiseInputFields)}
        \cup UNION {Range(NoiseOutputFields[l]) : l \in 1..Len(NoiseOutputFields)}

\* every input element main attaches inputChangeHandler to
ChangeInputs == NumberFields \cup Range(ColorFields)

\* a value string is a sequence of characters
DecimalDigits == <<"0", "1", "2", "3", "4", "5", "6", "7", "8", "9">>

DigitValue(c) == CHOOSE d \in 0..9 : DecimalDigits[d + 1] = c

IsDigits(str) == \A i \in 1..Len(str) : str[i] \in Range(DecimalDigits)

RECURSIVE DigitsValue(_)
\* the number a string of decimal digits denotes
DigitsValue(str) ==
    IF str = <<>> THEN 0
    ELSE 10 * DigitsValue(SubSeq(str, 1, Len(str) - 1)) + DigitValue(str[Len(str)])

\* Number(value) dropping the sign of a negative value
Number_Unsigned(str) ==
    IF str = <<>> THEN 0
    ELSE IF IsDigits(str) THEN DigitsValue(str)
    ELSE IF str[1] \in {"-", "+"} /\ Len(str) > 1 /\ IsDigits(Tail(str))
    THEN DigitsValue(Tail(str))
    ELSE "NaN"

\* Number(value) on strings of sign and digit characters: the empty string is 0,
\* an optionally signed run of digits is its value, anything else is NaN
Number(str) ==
    IF str = <<>> THEN 0
    ELSE IF IsDigits(str) THEN DigitsValue(str)
    ELSE IF str[1] \in {"-", "+"} /\ Len(str) > 1 /\ IsDigits(Tail(str))
    THEN IF str[1] = "-" THEN 0 - DigitsValue(Tail(str)) ELSE DigitsValue(Tail(str))
    ELSE "NaN"

RECURSIVE NaturalString(_)
\* the decimal string a user types for the natural number n
NaturalString(n) ==
    IF n < 10 THEN <<DecimalDigits[n + 1]>>
    ELSE NaturalString(n \div 10) \o <<DecimalDigits[(n % 10) + 1]>>

\* the decimal string a user types for the integer n
DecimalString(n) == IF n < 0 THEN <<"-">> \o NaturalString(0 - n) ELSE NaturalString(n)

\* hex.charAt(index) with index counted from 0: "" past the end of the string
charAt(hex, index) == IF index + 1 \in 1..Len(hex) THEN hex[index + 1] ELSE ""

\* the switch of hexToColor: what one character adds to value
HexDigit(c) ==
    CASE c = "0" -> 0 [] c = "1" -> 1 [] c = "2" -> 2 [] c = "3" -> 3
      [] c = "4" -> 4 [] c = "5" -> 5 [] c = "6" -> 6 [] c = "7" -> 7
      [] c = "8" -> 8 [] c = "9" -> 9 [] c = "a" -> 10 [] c = "b" -> 11
      [] c = "c" -> 12 [] c = "d" -> 13 [] c = "e" -> 14 [] c = "f" -> 15
      [] OTHER -> 0

\* the divisor of hexToColor: a channel is kept as its numerator over COLOR_SCALE
COLOR_SCALE == 256

\* hexToColor with the digits of a channel taken in the opposite order
hexToColor_LowFirst(hex) ==
    [rgbIndex \in 1..3 |->
        LET value == HexDigit(charAt(hex, 2 * rgbIndex - 1))
                     + 16 * HexDigit(charAt(hex, 2 * rgbIndex))
        IN IF value < 0 THEN 0 ELSE IF value > COLOR_SCALE THEN COLOR_SCALE ELSE value]

\* hexToColor: charIndex starts at 1 and each channel reads two characters; the
\* value is clamped to 0..256 and divided by 256
hexToColor(hex) ==
    [rgbIndex \in 1..3 |->
        LET value == 16 * HexDigit(charAt(hex, 2 * rgbIndex - 1))
                     + HexDigit(charAt(hex, 2 * rgbIndex))
        IN IF value < 0 THEN 0 ELSE IF value > COLOR_SCALE THEN COLOR_SCALE ELSE value]

\* fetchSettings storing tmax where the density falloff distance belongs
fetchSettings_Swapped(values) ==
    [stepSettings |-> <<Number(values["tminInput"]), Number(values["tmaxInput"]),
                        Number(values["densityFalloffInput"]),
                        Number(values["stepSizeInput"])>>,
     skyColor |-> hexToColor(values["skyColorInput"]),
     darkColor |-> hexToColor(values["darkColorInput"]),
     lightColor |-> hexToColor(values["lightColorInput"]),
     sunDir |-> [k \in 1..3 |-> Number(values[SunDirFields[k]])],
     sunStepSettings |-> [k \in 1..2 |-> Number(values[SunStepFields[k]])],
     lightAbsorption |-> Number(values["lightAbsorptionInput"]),
     fog |-> Number(values["fogInput"]),
     noiseInputSettings |->
         [l \in 1..5 |-> [k \in 1..4 |-> Number(values[NoiseInputFields[l][k]])]],
     noiseOutputSettings |->
         [l \in 1..5 |-> [k \in 1..2 |-> Number(values[NoiseOutputFields[l][k]])]]]

\* fetchSettings: every global is assigned from its input element, with no test
fetchSettings(values) ==
    [stepSettings |-> [k \in 1..4 |-> Number(values[StepFields[k]])],
     skyColor |-> hexToColor(values["skyColorInput"]),
     darkColor |-> hexToColor(values["darkColorInput"]),
     lightColor |-> hexToColor(values["lightColorInput"]),
     sunDir |-> [k \in 1..3 |-> Number(values[SunDirFields[k]])],
     sunStepSettings |-> [k \in 1..2 |-> Number(values[SunStepFields[k]])],
     lightAbsorption |-> Number(values["lightAbsorptionInput"]),
     fog |-> Number(values["fogInput"]),
     noiseInputSettings |->
         [l \in 1..5 |-> [k \in 1..4 |-> Number(values[NoiseInputFields[l][k]])]],
     noiseOutputSettings |->
         [l \in 1..5 |-> [k \in 1..2 |-> Number(values[NoiseOutputFields[l][k]])]]]

\* the globals as the script declares them: zero vectors, lightAbsorption and fog 1
InitialSettings ==
    [stepSettings |-> <<0, 0, 0, 0>>,
     skyColor |-> <<0, 0, 0>>,
     darkColor |-> <<0, 0, 0>>,
     lightColor |-> <<0, 0, 0>>,
     sunDir |-> <<0, 0, 0>>,
     sunStepSettings |-> <<0, 0>>,
     lightAbsorption |-> 1,
     fog |-> 1,
     noiseInputSettings |-> [l \in 1..5 |-> <<0, 0, 0, 0>>],
     noiseOutputSettings |-> [l \in 1..5 |-> <<0, 0>>]]

\* ------------------------------------------------------------ scheduler
InitialStage ==
    [newSkyboxRequested |-> FALSE,
     lightning |-> MAX_LIGHTNING_STAGES,
     panel |-> PANEL_COUNT,
     y |-> MAX_Y_TILES,
     x |-> MAX_X_TILES]

\* requestNewSkybox zeroing the cursor at once
requestNewSkybox_ZeroCursor(stage) ==
    [newSkyboxRequested |-> TRUE, lightning |-> 0, panel |-> 0, y |-> 0, x |-> 0]

\* requestNewSkybox flipping the flag instead of setting it
requestNewSkybox_Toggle(stage) ==
    [stage EXCEPT !.newSkyboxRequested = ~stage.newSkyboxRequested]

requestNewSkybox(stage) == [stage EXCEPT !.newSkyboxRequested = TRUE]

\* the reset block clearing the flag without rewinding the cursor
ResetStage_FlagOnly(stage) ==
    IF stage.newSkyboxRequested
    THEN [stage EXCEPT !.newSkyboxRequested = FALSE]
    ELSE stage

\* the reset block leaving x as it was
ResetStage_KeepsX(stage) ==
    IF stage.newSkyboxRequested
    THEN [newSkyboxRequested |-> FALSE, lightning |-> 0, panel |-> 0, y |-> 0, x |-> stage.x]
    ELSE stage

\* the reset block leaving the panel as it was
ResetStage_KeepsPanel(stage) ==
    IF stage.newSkyboxRequested
    THEN [newSkyboxRequested |-> FALSE, lightning |-> 0,
          panel |-> IF stage.panel < PANEL_COUNT THEN stage.panel ELSE 0, y |-> 0, x |-> 0]
    ELSE stage

\* the reset block starting a bake one column to the left of the first
ResetStage_NegativeX(stage) ==
    IF stage.newSkyboxRequested
    THEN [newSkyboxRequested |-> FALSE, lightning |-> 0, panel |-> 0, y |-> 0, x |-> 0 - 1]
    ELSE stage

\* first block of renderNewSkybox: a pending request zeroes the cursor
ResetStage(stage) ==
    IF stage.newSkyboxRequested
    THEN [newSkyboxRequested |-> FALSE, lightning |-> 0, panel |-> 0, y |-> 0, x |-> 0]
    ELSE stage

\* "Error checking": the four tests run in sequence, each on its own component
ClampNegative(stage) ==
    [stage EXCEPT !.x = IF @ < 0 THEN 0 ELSE @,
                  !.y = IF @ < 0 THEN 0 ELSE @,
                  !.panel = IF @ < 0 THEN 0 ELSE @,
                  !.lightning = IF @ < 0 THEN 0 ELSE @]

\* the x test written with > for >=
CarryX_OffByOne(stage) ==
    IF stage.x > MAX_X_TILES THEN [stage EXCEPT !.y = @ + 1, !.x = 0] ELSE stage

\* the y overflow resetting y without moving on to the next panel
CarryY_NoPanel(stage) ==
    IF stage.y >= MAX_Y_TILES THEN [stage EXCEPT !.y = 0] ELSE stage

\* the panel overflow wrapping to panel 0 without ending the lightning stage
CarryPanel_NoStage(stage) ==
    IF stage.panel >= PANEL_COUNT THEN [stage EXCEPT !.panel = 0] ELSE stage

\* the x overflow moving on two rows
CarryX_SkipsRow(stage) ==
    IF stage.x >= MAX_X_TILES THEN [stage EXCEPT !.y = @ + 2, !.x = 0] ELSE stage

\* "Incrementing": three tests in sequence, each sees the result of the one before
CarryX(stage) ==
    IF stage.x >= MAX_X_TILES THEN [stage EXCEPT !.y = @ + 1, !.x = 0] ELSE stage

CarryY(stage) ==
    IF stage.y >= MAX_Y_TILES THEN [stage EXCEPT !.panel = @ + 1, !.y = 0] ELSE stage

\* the panel carry taken one panel late
CarryPanel_Late(stage) ==
    IF stage.panel > PANEL_COUNT THEN [stage EXCEPT !.lightning = @ + 1, !.panel = 0] ELSE stage

CarryPanel(stage) ==
    IF stage.panel >= PANEL_COUNT THEN [stage EXCEPT !.lightning = @ + 1, !.panel = 0] ELSE stage

Carry(stage) == CarryPanel(CarryY(CarryX(stage)))

\* the switch on skyboxRenderingStage.panel: the model (and so the texture) drawn to
PanelToRender(panel) ==
    CASE panel = 0 -> "nzPlane"
      [] panel = 1 -> "pxPlane"
      [] panel = 2 -> "pzPlane"
      [] panel = 3 -> "nxPlane"
      [] panel = 4 -> "pyPlane"
      [] panel = 5 -> "nyPlane"
      [] OTHER -> "none"

\* the panel switch with the rotations of the two side faces exchanged
PanelRotation_SidesExchanged(panel) ==
    CASE panel = 0 -> <<"none", 0>>
      [] panel = 1 -> <<"Y", 90>>
      [] panel = 2 -> <<"Y", 180>>
      [] panel = 3 -> <<"Y", -90>>
      [] panel = 4 -> <<"X", 90>>
      [] panel = 5 -> <<"X", -90>>
      [] OTHER -> <<"none", 0>>

\* the rotation the same switch applies to the identity: <<axis, degrees>>
PanelRotation(panel) ==
    CASE panel = 0 -> <<"none", 0>>
      [] panel = 1 -> <<"Y", -90>>
      [] panel = 2 -> <<"Y", 180>>
      [] panel = 3 -> <<"Y", 90>>
      [] panel = 4 -> <<"X", 90>>
      [] panel = 5 -> <<"X", -90>>
      [] OTHER -> <<"none", 0>>

\* renderPanelTexture with the viewport left at the whole face
renderPanelTexture_WholeFace(xIndex, yIndex, panel, stage, rotation, uniforms) ==
    [op |-> "drawTile",
     target |-> "frameBuffer",
     texture |-> panel,
     viewport |-> <<0, 0, FACE_SIZE, FACE_SIZE>>,
     tileCoordinates |-> <<xIndex * SKYBOX_TILE_SIZE, yIndex * SKYBOX_TILE_SIZE,
                           (xIndex + 1) * SKYBOX_TILE_SIZE, (yIndex + 1) * SKYBOX_TILE_SIZE>>,
     tile |-> <<stage.lightning, stage.panel, yIndex, xIndex>>,
     rotation |-> rotation,
     uniforms |-> uniforms]

\* one draw into the tile's viewport of the texture attached to the framebuffer
renderPanelTexture(xIndex, yIndex, panel, stage, rotation, uniforms) ==
    [op |-> "drawTile",
     target |-> "frameBuffer",
     texture |-> panel,
     viewport |-> <<xIndex * SKYBOX_TILE_SIZE, yIndex * SKYBOX_TILE_SIZE,
                    SKYBOX_TILE_SIZE, SKYBOX_TILE_SIZE>>,
     tileCoordinates |-> <<xIndex * SKYBOX_TILE_SIZE, yIndex * SKYBOX_TILE_SIZE,
                           (xIndex + 1) * SKYBOX_TILE_SIZE, (yIndex + 1) * SKYBOX_TILE_SIZE>>,
     tile |-> <<stage.lightning, stage.panel, yIndex, xIndex>>,
     rotation |-> rotation,
     uniforms |-> uniforms]

\* renderNewSkybox without the final x++
renderNewSkybox_NoIncrement(stage, uniforms, binding) ==
    LET s1 == ResetStage(stage) IN
    IF s1.lightning >= MAX_LIGHTNING_STAGES
    THEN [stage |-> s1, ops |-> <<>>, binding |-> binding]
    ELSE LET s2 == Carry(ClampNegative(s1)) IN
         IF s2.lightning >= MAX_LIGHTNING_STAGES
         THEN [stage |-> s2, ops |-> <<>>, binding |-> binding]
         ELSE IF PanelToRender(s2.panel) = "none"
         THEN [stage |-> s2, ops |-> <<>>, binding |-> binding]
         ELSE [stage |-> s2,
               ops |-> <<renderPanelTexture(s2.x, s2.y, PanelToRender(s2.panel), s2,
                                            PanelRotation(s2.panel), uniforms)>>,
               binding |-> "frameBuffer"]

\* renderNewSkybox with both terminal tests written with > for >=
renderNewSkybox_StrictTerminal(stage, uniforms, binding) ==
    LET s1 == ResetStage(stage) IN
    IF s1.lightning > MAX_LIGHTNING_STAGES
    THEN [stage |-> s1, ops |-> <<>>, binding |-> binding]
    ELSE LET s2 == Carry(ClampNegative(s1)) IN
         IF s2.lightning > MAX_LIGHTNING_STAGES
         THEN [stage |-> s2, ops |-> <<>>, binding |-> binding]
         ELSE IF PanelToRender(s2.panel) = "none"
         THEN [stage |-> s2, ops |-> <<>>, binding |-> binding]
         ELSE [stage |-> [s2 EXCEPT !.x = @ + 1],
               ops |-> <<renderPanelTexture(s2.x, s2.y, PanelToRender(s2.panel), s2,
                                            PanelRotation(s2.panel), uniforms)>>,
               binding |-> "frameBuffer"]

\* renderNewSkybox without the test that follows the carry
renderNewSkybox_NoRecheck(stage, uniforms, binding) ==
    LET s1 == ResetStage(stage) IN
    IF s1.lightning >= MAX_LIGHTNING_STAGES
    THEN [stage |-> s1, ops |-> <<>>, binding |-> binding]
    ELSE LET s2 == Carry(ClampNegative(s1)) IN
         IF PanelToRender(s2.panel) = "none"
         THEN [stage |-> s2, ops |-> <<>>, binding |-> binding]
         ELSE [stage |-> [s2 EXCEPT !.x = @ + 1],
               ops |-> <<renderPanelTexture(s2.x, s2.y, PanelToRender(s2.panel), s2,
                                            PanelRotation(s2.panel), uniforms)>>,
               binding |-> "frameBuffer"]

\* renderNewSkybox: the cursor after the call, the draw calls it issued, and the
\* framebuffer binding it leaves
renderNewSkybox(stage, uniforms, binding) ==
    LET s1 == ResetStage(stage) IN
    IF s1.lightning >= MAX_LIGHTNING_STAGES
    THEN [stage |-> s1, ops |-> <<>>, binding |-> binding]
    ELSE LET s2 == Carry(ClampNegative(s1)) IN
         IF s2.lightning >= MAX_LIGHTNING_STAGES
         THEN [stage |-> s2, ops |-> <<>>, binding |-> binding]
         ELSE IF PanelToRender(s2.panel) = "none"
         THEN [stage |-> s2, ops |-> <<>>, binding |-> binding]
         ELSE [stage |-> [s2 EXCEPT !.x = @ + 1],
               ops |-> <<renderPanelTexture(s2.x, s2.y, PanelToRender(s2.panel), s2,
                                            PanelRotation(s2.panel), uniforms)>>,
               binding |-> "frameBuffer"]

\* ------------------------------------------------------------ presentation
\* key order of skyBoxModels, which the for-in loop of renderFrame follows
skyBoxModels == <<"nzPlane", "pxPlane", "pzPlane", "nxPlane", "pyPlane", "nyPlane">>

\* one drawElements of the presentation loop: samples the model's texture and
\* draws to whatever the framebuffer binding is
DrawFace(model, binding) ==
    [op |-> "drawFace",
     target |-> binding,
     texture |-> model,
     viewport |-> <<>>,
     tileCoordinates |-> <<>>,
     tile |-> <<>>,
     rotation |-> <<>>,
     uniforms |-> <<>>]

\* renderFrame calling renderNewSkybox after the presentation loop
renderFrame_BakeLast(stage, uniforms, binding) ==
    LET bake == renderNewSkybox(stage, uniforms, "canvas")
    IN [stage |-> bake.stage,
        bakeOps |-> bake.ops,
        ops |-> [i \in 1..Len(skyBoxModels) |-> DrawFace(skyBoxModels[i], "canvas")]
                \o bake.ops,
        binding |-> bake.binding]

\* renderFrame without bindFramebuffer(FRAMEBUFFER, null)
renderFrame_NoUnbind(stage, uniforms, binding) ==
    LET bake == renderNewSkybox(stage, uniforms, binding)
    IN [stage |-> bake.stage,
        bakeOps |-> bake.ops,
        ops |-> bake.ops
                \o [i \in 1..Len(skyBoxModels) |-> DrawFace(skyBoxModels[i], bake.binding)],
        binding |-> bake.binding]

\* renderFrame: the bake step first, then bind the canvas and draw the six faces
renderFrame(stage, uniforms, binding) ==
    LET bake == renderNewSkybox(stage, uniforms, binding)
        canvas == "canvas"
    IN [stage |-> bake.stage,
        bakeOps |-> bake.ops,
        ops |-> bake.ops \o [i \in 1..Len(skyBoxModels) |-> DrawFace(skyBoxModels[i], canvas)],
        binding |-> canvas]

\* ------------------------------------------------------------ noise volume
noiseBaseDimension == 16
noiseBaseRowLength == 4
textureDimension == 64

\* length of the textureData array of loadNewNoise
TextureDataLength == textureDimension * textureDimension * 4

\* the loop of loadNewNoise stopping half way through textureData
TextureDataAssigned_HalfLoop ==
    UNION {{i, i + 1, i + 2, i + 3} :
              i \in {k \in 0..(TextureDataLength \div 2 - 1) : k % 4 = 0}}

\* the elements of textureData the loop of loadNewNoise assigns: i .. i + 3 for
\* i = 0, 4, 8, ... below TextureDataLength
TextureDataAssigned ==
    UNION {{i, i + 1, i + 2, i + 3} : i \in {k \in 0..(TextureDataLength - 1) : k % 4 = 0}}

\* the elements texImage2D reads for a textureDimension x textureDimension RGBA
\* image: the whole texture is replaced
TextureDataUploaded == 0..(textureDimension * textureDimension * 4 - 1)

TextureDataUnassigned == TextureDataUploaded \ TextureDataAssigned

\* loadNewNoise: random names the bytes Math.random produced for the assigned
\* elements; an element the loop did not assign is uploaded as it is, not as
\* one of those bytes
loadNewNoise(random) == [random |-> random, unassigned |-> TextureDataUnassigned]

\* ------------------------------------------------------------ fragment shader
\* densities and alpha are kept in hundredths, so that the threshold 0.01 is 1
ONE == 100
\* the loop bound of the primary ray
MAX_SAMPLES == 200

Abs(n) == IF n < 0 THEN 0 - n ELSE n

\* n / d for d # 0, rounded down
Quotient(n, d) == IF d < 0 THEN (0 - n) \div (0 - d) ELSE n \div d

clamp(value, low, high) == IF value < low THEN low ELSE IF value > high THEN high ELSE value

\* mix(x, y, a) = x*(1 - a) + y*a with a = num/den
mix(x, y, num, den) == Quotient(x * (den - num) + y * num, den)

\* what noise3D can return: the interpolation of texels, each between 0 and 1
NoiseSamples == {0, ONE \div 2, ONE}

\* the five positions one call of sampleLayeredDensity samples the noise at
LayerNoise == [1..5 -> NoiseSamples]

\* sampleDensity: noise is the value noise3D returned for this layer
sampleDensity(noise, slope, offset) == clamp(noise * slope + offset * ONE, 0, ONE)

\* sampleLayeredDensity returning the sum of its layers
sampleLayeredDensity_NoClamp(noise, outputSettings) ==
    sampleDensity(noise[1], outputSettings[1][1], outputSettings[1][2])
        + sampleDensity(noise[2], outputSettings[2][1], outputSettings[2][2])
        + sampleDensity(noise[3], outputSettings[3][1], outputSettings[3][2])
        + sampleDensity(noise[4], outputSettings[4][1], outputSettings[4][2])
        + sampleDensity(noise[5], outputSettings[5][1], outputSettings[5][2])

sampleLayeredDensity(noise, outputSettings) ==
    clamp(sampleDensity(noise[1], outputSettings[1][1], outputSettings[1][2])
              + sampleDensity(noise[2], outputSettings[2][1], outputSettings[2][2])
              + sampleDensity(noise[3], outputSettings[3][1], outputSettings[3][2])
              + sampleDensity(noise[4], outputSettings[4][1], outputSettings[4][2])
              + sampleDensity(noise[5], outputSettings[5][1], outputSettings[5][2]),
          0, ONE)

\* length(ro + rd*t) for ro the origin and rd a unit vector
sampleDistanceAt(t) == Abs(t)

\* what a division by zero can leave in density: any value; one that compares
\* false with everything behaves as one below the threshold
UnspecifiedDensities == {0 - ONE, 0, ONE \div 2, 2 * ONE}

\* the falloff measured from densityFalloffStart instead of densityFalloffEnd
densityFalloff_FromStart(stepSettings, t) ==
    LET densityFalloffStart == sampleDistanceAt(stepSettings[2])
        densityFalloffEnd == sampleDistanceAt(stepSettings[1])
    IN IF sampleDistanceAt(t) < densityFalloffStart
       THEN [applied |-> TRUE,
             num |-> sampleDistanceAt(t) - densityFalloffStart,
             den |-> densityFalloffStart - densityFalloffEnd]
       ELSE [applied |-> FALSE, num |-> 1, den |-> 1]

\* the factor the sample at t is scaled by, as the fraction num/den; when the
\* test fails the density is left as it is, which is the factor 1/1
densityFalloff(stepSettings, t) ==
    LET densityFalloffStart == sampleDistanceAt(stepSettings[2])
        densityFalloffEnd == sampleDistanceAt(stepSettings[1])
    IN IF sampleDistanceAt(t) < densityFalloffStart
       THEN [applied |-> TRUE,
             num |-> sampleDistanceAt(t) - densityFalloffEnd,
             den |-> densityFalloffStart - densityFalloffEnd]
       ELSE [applied |-> FALSE, num |-> 1, den |-> 1]

\* the densities the sample can have after the falloff
FalloffDensities(layered, falloff) ==
    IF ~falloff.applied THEN {layered}
    ELSE IF falloff.den = 0 THEN UnspecifiedDensities
    ELSE {mix(0, layered, falloff.num, falloff.den)}

\* the loop bound of the ray towards the sun
MAX_SUN_SAMPLES == 50

\* the fragment shaded looks along the Y axis and the sun lies on that axis:
\* normalize(u_sunDir) is the ray direction or its opposite
sunAlong(sunDir) ==
    CASE sunDir[1] = 0 /\ sunDir[3] = 0 /\ sunDir[2] > 0 -> 1
      [] sunDir[1] = 0 /\ sunDir[3] = 0 /\ sunDir[2] < 0 -> -1

\* the loop towards the sun for a primary sample at t with the given density:
\* how many passes it can make and how many of them sample the layers, for any
\* noise at the sampled positions (layeredValues is what sampleLayeredDensity
\* can return)
sunLoop(t, density, layeredValues, settings) ==
    LET tsunMax == settings.sunStepSettings[1]
        sunStepSize == settings.sunStepSettings[2]
        densityFalloffEnd == sampleDistanceAt(settings.stepSettings[1])
        \* tsun and the sample position along the ray when j passes are done
        tsun(j) == j * sunStepSize
        newPos(j) == t - sunAlong(settings.sunDir) * tsun(j)
        sampled(j) == sampleDistanceAt(newPos(j)) >= densityFalloffEnd
        newDensities(j) ==
            UNION {FalloffDensities(layered, densityFalloff(settings.stepSettings, newPos(j))) :
                      layered \in layeredValues}
        \* densityToSun after the pass that follows j passes
        afterPass(densityToSun, j) ==
            IF sampled(j)
            THEN {clamp(densityToSun + newDensity, 0, ONE) : newDensity \in newDensities(j)}
            ELSE {densityToSun}
        \* the values densityToSun can have when pass j has not left the loop
        live[j \in 0..MAX_SUN_SAMPLES] ==
            IF j = 0 THEN {density}
            ELSE IF tsun(j) > tsunMax THEN {}
            ELSE {d \in UNION {afterPass(densityToSun, j - 1) : densityToSun \in live[j - 1]} :
                     d < ONE}
        leavesAfter(j) ==
            \E densityToSun \in live[j - 1] :
                \E d \in afterPass(densityToSun, j - 1) :
                    d >= ONE \/ tsun(j) > tsunMax \/ j >= MAX_SUN_SAMPLES
    IN {[passes |-> j, samples |-> Cardinality({k \in 0..(j - 1) : sampled(k)})] :
           j \in {k \in 1..MAX_SUN_SAMPLES : leavesAfter(k)}}

\* a primary sample outside every cloud starts no loop towards the sun
NoSunLoop == [passes |-> 0, samples |-> 0]

\* no fragment is being shaded
NoFragment ==
    [state |-> "idle", i |-> 0, t |-> 0, alpha |-> 0,
     sample |-> [t |-> 0, layered |-> 0, falloff |-> [applied |-> FALSE, num |-> 1, den |-> 1],
                 density |-> 0, sun |-> NoSunLoop]]

\* raymarching up to its loop: cloudColor = vec4(0.0), t = tmin
raymarchingStart(stepSettings) ==
    [NoFragment EXCEPT !.state = "marching", !.t = stepSettings[1]]

\* the loop of raymarching without its bound on i
raymarchingStep_NoLoopBound(frag, stepSettings, layered, falloff, density, sun) ==
    LET accumulated == IF density > 1
                       THEN frag.alpha + Quotient(density * (ONE - frag.alpha), ONE)
                       ELSE frag.alpha
        t == frag.t + stepSettings[4]
        out == accumulated >= ONE \/ t > stepSettings[3]
    IN [state |-> IF out THEN "done" ELSE "marching",
        i |-> frag.i + 1,
        t |-> t,
        alpha |-> IF accumulated >= ONE THEN ONE ELSE accumulated,
        sample |-> [t |-> frag.t, layered |-> layered, falloff |-> falloff,
                    density |-> density, sun |-> sun]]

\* one pass of the loop of raymarching on the alpha of cloudColor: layered and
\* density are what the pass sampled, sun the passes of its loop towards the sun
raymarchingStep(frag, stepSettings, layered, falloff, density, sun) ==
    LET accumulated == IF density > 1
                       THEN frag.alpha + Quotient(density * (ONE - frag.alpha), ONE)
                       ELSE frag.alpha
        t == frag.t + stepSettings[4]
        out == accumulated >= ONE \/ t > stepSettings[3] \/ frag.i + 1 >= MAX_SAMPLES
    IN [state |-> IF out THEN "done" ELSE "marching",
        i |-> frag.i + 1,
        t |-> t,
        alpha |-> IF accumulated >= ONE THEN ONE ELSE accumulated,
        sample |-> [t |-> frag.t, layered |-> layered, falloff |-> falloff,
                    density |-> density, sun |-> sun]]

\* ------------------------------------------------------------ face geometry
\* positions and directions are kept in half faces: 1.0 is FACE_SIZE / 2 pixels
HALF_FACE == FACE_SIZE \div 2

\* vertexCoordinates of each model of skyBoxModels, vertex 0 to vertex 3
vertexCoordinates(model) ==
    CASE model = "nzPlane" -> <<<<-1, -1, -1>>, <<1, -1, -1>>, <<1, 1, -1>>, <<-1, 1, -1>>>>
      [] model = "pxPlane" -> <<<<1, -1, -1>>, <<1, -1, 1>>, <<1, 1, 1>>, <<1, 1, -1>>>>
      [] model = "pzPlane" -> <<<<1, -1, 1>>, <<-1, -1, 1>>, <<-1, 1, 1>>, <<1, 1, 1>>>>
      [] model = "nxPlane" -> <<<<-1, -1, 1>>, <<-1, -1, -1>>, <<-1, 1, -1>>, <<-1, 1, 1>>>>
      [] model = "pyPlane" -> <<<<-1, 1, -1>>, <<1, 1, -1>>, <<1, 1, 1>>, <<-1, 1, 1>>>>
      [] model = "nyPlane" -> <<<<-1, -1, 1>>, <<1, -1, 1>>, <<1, -1, -1>>, <<-1, -1, -1>>>>

\* uvValues, the same in every model of skyBoxModels
uvValues == <<<<0, 0>>, <<1, 0>>, <<1, 1>>, <<0, 1>>>>

\* the corners of frameBufferModel, the quad a tile draw covers its viewport with
frameBufferModel == <<<<-1, -1>>, <<1, -1>>, <<1, 1>>, <<-1, 1>>>>

\* the vertex shader up to the rotation: the corner of the viewport quad takes
\* the lower or upper tile coordinate, mapped from 0..FACE_SIZE to -1..1, z = -1
vertexPosition(corner, tileCoordinates) ==
    <<clamp((IF corner[1] < 0 THEN tileCoordinates[1] ELSE tileCoordinates[3]) - HALF_FACE,
            0 - HALF_FACE, HALF_FACE),
      clamp((IF corner[2] < 0 THEN tileCoordinates[2] ELSE tileCoordinates[4]) - HALF_FACE,
            0 - HALF_FACE, HALF_FACE),
      0 - HALF_FACE>>

Cos(degrees) == CASE degrees = 0 -> 1 [] degrees = 180 -> -1 [] OTHER -> 0

Sin(degrees) == CASE degrees = 90 -> 1 [] degrees = -90 -> -1 [] OTHER -> 0

\* mat4.rotate of the identity about an axis, applied to v: a right-handed
\* rotation, counter-clockwise seen from the tip of the axis
rotate(rotation, v) ==
    LET c == Cos(rotation[2])
        s == Sin(rotation[2])
    IN CASE rotation[1] = "Y" -> <<v[1] * c + v[3] * s, v[2], v[3] * c - v[1] * s>>
         [] rotation[1] = "X" -> <<v[1], v[2] * c - v[3] * s, v[2] * s + v[3] * c>>
         [] OTHER -> v

\* ------------------------------------------------------------ page
\* the addEventListener calls of main: <<element, event type, handler>>
MainListeners ==
    {<<"canvas", "mousemove", "updateMouse">>,
     <<"canvas", "mouseleave", "mouseLeave">>,
     <<"resetNoiseInput", "click", "resetNoiseHandler">>}
        \cup {<<f, "change", "inputChangeHandler">> : f \in ChangeInputs}

\* the page before main: nothing alerted, nothing registered, no frame callback
InitialPage == [alerts |-> 0, listeners |-> {}, frameCallback |-> FALSE]

\* the input values the page loads with: every number field "0", every colour
\* "#000000", and tminInput any of the strings it is later edited to
DefaultValues ==
    [f \in ChangeInputs |->
        IF f \in Range(ColorFields) THEN <<"#", "0", "0", "0", "0", "0", "0">> ELSE <<"0">>]

TminStrings == {DecimalString(v) : v \in SettingValues}

LoadedValues == {[DefaultValues EXCEPT !["tminInput"] = str] : str \in TminStrings}

\* ------------------------------------------------------------ numbers of the animation clock
\* JavaScript numbers are binary floating point: every arithmetic result is
\* rounded to the nearest value with a fixed number of significand bits, ties
\* to even.  The clock and the skybox rotation are modelled with PRECISION
\* significand bits (a double has 53) as [m |-> significand, e |-> exponent],
\* value m * 2^e, with m = 0 or 2^(PRECISION-1) <= m < 2^PRECISION.
PRECISION == 3
\* frames arrive at timestamp 0 and at the whole milliseconds MaxTime - 1 and
\* MaxTime
MaxTime == 6
FrameTimes == {0} \cup (MaxTime - 1)..MaxTime

BitLength(n) == CHOOSE k \in 0..30 : IF n = 0 THEN k = 0 ELSE 2^k > n /\ (k = 0 \/ 2^(k - 1) <= n)

\* n / 2^k rounded to the nearest integer, ties to even
RoundShift(n, k) ==
    LET q == n \div 2^k
        r == n % 2^k
        half == 2^(k - 1)
    IN IF r > half \/ (r = half /\ q % 2 = 1) THEN q + 1 ELSE q

\* the number with bits significand bits nearest to n * 2^e (n a natural number)
Rounded(bits, n, e) ==
    LET len == BitLength(n) IN
    IF n = 0 THEN [m |-> 0, e |-> 0]
    ELSE IF len <= bits THEN [m |-> n * 2^(bits - len), e |-> e - (bits - len)]
    ELSE LET q == RoundShift(n, len - bits) IN
         IF q = 2^bits
         THEN [m |-> 2^(bits - 1), e |-> e + (len - bits) + 1]
         ELSE [m |-> q, e |-> e + (len - bits)]

Float(n, e) == Rounded(PRECISION, n, e)

\* the number a decimal literal num/den is read as
Literal(num, den) ==
    LET k == CHOOSE k \in 0..24 : num * 2^k >= den * 2^(PRECISION - 1) /\ num * 2^k < den * 2^PRECISION
        q == (num * 2^k) \div den
        r == (num * 2^k) % den
        up == 2 * r > den \/ (2 * r = den /\ q % 2 = 1)
    IN Float(IF up THEN q + 1 ELSE q, 0 - k)

\* a * b, a + b and a - b (for a >= b) as the arithmetic delivers them
Times(a, b) == Float(a.m * b.m, a.e + b.e)

Plus(a, b) ==
    IF a.m = 0 THEN b
    ELSE IF b.m = 0 THEN a
    ELSE LET e == IF a.e < b.e THEN a.e ELSE b.e
         IN Float(a.m * 2^(a.e - e) + b.m * 2^(b.e - e), e)

Minus(a, b) ==
    IF b.m = 0 THEN a
    ELSE LET e == IF a.e < b.e THEN a.e ELSE b.e
         IN Float(a.m * 2^(a.e - e) - b.m * 2^(b.e - e), e)

\* a <= b
AtMost(a, b) ==
    \/ a.m = 0
    \/ /\ b.m # 0
       /\ LET e == IF a.e < b.e THEN a.e ELSE b.e
          IN a.m * 2^(a.e - e) <= b.m * 2^(b.e - e)

ZERO == Float(0, 0)

\* ------------------------------------------------------------ camera and clock
\* skyboxRotationSpeed = 0.02, and the 0.001 of newFrame's conversion to seconds
skyboxRotationSpeed == Literal(2, 100)
MILLI == Literal(1, 1000)

\* player.pitchAngle and player.yawAngle are kept in ten-thousandths of a radian:
\* updateMouse turns by 0.01 per pixel; piOver2 is 1.5708 to that resolution
ANGLE_PER_PIXEL == 100
piOver2 == 15708

\* the mouse is seen at columns 0..MaxMouse of the top row and at row MouseFar
\* of the first column
MaxMouse == 1
MouseFar == 320
MousePositions == {<<x, 0>> : x \in 0..MaxMouse} \cup {<<0, MouseFar>>}
\* yaw is followed while its magnitude is at most MaxYaw
MaxYaw == 100
\* frames delivered after a request in the camera specification
MaxViewFrames == 2

InitialMousePosition == [inWindow |-> FALSE, x |-> 0, y |-> 0]
\* rightVec and forwardVec are recomputed from yawAngle by yawRight and read by
\* nothing else; they are left out
InitialPlayer == [yawAngle |-> 0, pitchAngle |-> 0]

\* pitchUp: add the angle, then clamp to [-piOver2, piOver2]
pitchUp(p, angle) ==
    LET pitched == p.pitchAngle + angle
        upper == IF pitched > piOver2 THEN piOver2 ELSE pitched
    IN [p EXCEPT !.pitchAngle = IF upper < 0 - piOver2 THEN 0 - piOver2 ELSE upper]

\* yawRight: add the angle
yawRight(p, angle) == [p EXCEPT !.yawAngle = @ + angle]

\* updateMouse: the first event after the mouse was outside only records the
\* position; later events turn the player by the movement
updateMouse(mouse, p, offsetX, offsetY) ==
    IF ~mouse.inWindow
    THEN [mouse |-> [inWindow |-> TRUE, x |-> offsetX, y |-> offsetY], player |-> p]
    ELSE LET deltaX == offsetX - mouse.x
             deltaY == offsetY - mouse.y
         IN [mouse |-> [mouse EXCEPT !.x = offsetX, !.y = offsetY],
             player |-> yawRight(pitchUp(p, deltaY * (0 - ANGLE_PER_PIXEL)),
                                 deltaX * (0 - ANGLE_PER_PIXEL))]

mouseLeave(mouse) == [mouse EXCEPT !.inWindow = FALSE]

\* ------------------------------------------------------------ the shared rotation matrix
\* skyBoxRotationMatrix is kept as the list of rotations multiplied onto the
\* identity, each <<axis, angle>>; mat4.create and mat4.identity give the
\* empty product, mat4.rotate multiplies one rotation on
IDENTITY == <<>>
identity(out) == IDENTITY
Rotated(matrix, angle, axis) == Append(matrix, <<axis, angle>>)

\* the angles of the presentation: the negated pitch, yaw and skybox rotation
Negated(angle) == [negated |-> angle]

\* the matrix renderNewSkybox leaves behind: untouched by the early returns,
\* otherwise the identity times the rotation of the panel's case
bakeRotationMatrix(stage, matrix) ==
    LET s1 == ResetStage(stage) IN
    IF s1.lightning >= MAX_LIGHTNING_STAGES THEN matrix
    ELSE LET s2 == Carry(ClampNegative(s1)) IN
         IF s2.lightning >= MAX_LIGHTNING_STAGES THEN matrix
         ELSE IF PanelRotation(s2.panel)[1] = "none" THEN identity(matrix)
         ELSE Rotated(identity(matrix), [degrees |-> PanelRotation(s2.panel)[2]],
                      PanelRotation(s2.panel)[1])

\* the world-view matrix of renderFrame with mat4.identity left out
worldViewMatrix_NoIdentity(matrix, p, rotation) ==
    Rotated(Rotated(Rotated(matrix, Negated(p.pitchAngle), "X"),
                    Negated(p.yawAngle), "Y"),
            Negated(rotation), "Y")

\* the world-view matrix renderFrame computes into skyBoxRotationMatrix
worldViewMatrix(matrix, p, rotation) ==
    Rotated(Rotated(Rotated(identity(matrix), Negated(p.pitchAngle), "X"),
                    Negated(p.yawAngle), "Y"),
            Negated(rotation), "Y")

\* newFrame's clock: seconds, deltaT, previousTimeStamp and skyboxRotation,
\* accumulating without the elapsed time (one speed step per frame)
tick_PerFrame(now, previous, rotation) ==
    LET seconds == Times(Float(now, 0), MILLI)
    IN [previousTimeStamp |-> seconds,
        skyboxRotation |-> Plus(rotation, skyboxRotationSpeed)]

\* newFrame's clock: now *= 0.001; deltaT = now - previousTimeStamp;
\* previousTimeStamp = now; skyboxRotation += skyboxRotationSpeed * deltaT
tick(now, previous, rotation) ==
    LET seconds == Times(Float(now, 0), MILLI)
        deltaT == Minus(seconds, previous)
    IN [previousTimeStamp |-> seconds,
        skyboxRotation |-> Plus(rotation, Times(skyboxRotationSpeed, deltaT))]

\* ------------------------------------------------------------ noise lookups
\* significand bits of a highp float of the shader; coordinates are kept in
\* units of 2^-(FLOAT_BITS + 2), fine enough for every float in [1/4, 1]
FLOAT_BITS == 24
COORD_ONE == 2^(FLOAT_BITS + 2)
\* the largest float below 1
BELOW_ONE == COORD_ONE - 4
\* one lattice cell: 1 / u_dimension
CELL == COORD_ONE \div noiseBaseDimension

\* x - floor(x), rounded to a float
RoundedFract(x) ==
    LET r == Rounded(FLOAT_BITS, x % COORD_ONE, 0)
    IN IF r.e >= 0 THEN r.m * 2^r.e ELSE r.m \div 2^(0 - r.e)

\* fract(x): x - floor(x) as a float.  For a negative x closer to 0 than half
\* the spacing of the floats below 1 the difference rounds to 1.0; an
\* implementation may return that or keep the result below 1
fract(x) ==
    IF RoundedFract(x) >= COORD_ONE THEN {COORD_ONE, BELOW_ONE} ELSE {RoundedFract(x)}

\* wrapVolumeCoords, one component: fract, then + 1.0 if negative
wrapVolumeCoords(x) == {IF f < 0 THEN f + COORD_ONE ELSE f : f \in fract(x)}

\* the corner index of noise3D along one axis: stu_i, or stu_i + 1 wrapped by
\* one subtraction of u_dimension
CornerIndex(stu_i, offset) ==
    IF offset = 0 THEN stu_i
    ELSE IF stu_i + 1 >= noiseBaseDimension THEN stu_i + 1 - noiseBaseDimension
    ELSE stu_i + 1

CornerOffsets == {0, 1} \X {0, 1} \X {0, 1}

\* noise3D(stu) up to the lookups: stu *= u_dimension, stu_i = floor(stu), and
\* the indices i000 .. i111 of the eight corners
noise3D(stu) ==
    LET stu_i == [a \in 1..3 |-> (stu[a] * noiseBaseDimension) \div COORD_ONE]
    IN [stu |-> stu,
        stu_i |-> stu_i,
        corners |-> [d \in CornerOffsets |-> [a \in 1..3 |-> CornerIndex(stu_i[a], d[a])]]]

\* vol3D(u_sampler, index / u_dimension, u_dimension, u_rowLength): the texel
\* texture2D reads.  tileIndex = floor(coord.z * tileDimension) / rowLength is
\* index[3] / rowLength, so fract(tileIndex) * rowLength is index[3] mod
\* rowLength and floor(tileIndex) is index[3] div rowLength; finalCoord is
\* (tileCoord + coord.xy) / rowLength, in texels (tileCoord * tileDimension +
\* index.xy) of a texture rowLength * tileDimension wide, sampled NEAREST and
\* clamped to the edge
vol3D(index) ==
    LET tileCoord == <<index[3] % noiseBaseRowLength, index[3] \div noiseBaseRowLength>>
    IN <<clamp(tileCoord[1] * noiseBaseDimension + index[1], 0, textureDimension - 1),
         clamp(tileCoord[2] * noiseBaseDimension + index[2], 0, textureDimension - 1)>>

\* no sampleDensity call made yet
NoLookup == [stu |-> <<0, 0, 0>>, stu_i |-> <<0, 0, 0>>, corners |-> <<>>]

\* the values of stu * scale + translation along one axis: just below 0, 0,
\* the middle of the first cell, the start of the last cell, the largest
\* float below 1, and a cell beyond 1
SampleCoordinates ==
    {0 - 1, 0, CELL \div 2, COORD_ONE - CELL, BELOW_ONE, COORD_ONE + CELL}

\* ------------------------------------------------------------ actions
\* the script has been evaluated and the page has loaded with the values of inputs
InitWith(inputs) ==
    /\ pc = "load"
    /\ page = InitialPage
    /\ inputValues \in inputs
    /\ skyboxRenderingStage = InitialStage
    /\ storedSettings = InitialSettings
    /\ noiseBase = NO_NOISE
    /\ framebufferBinding = "canvas"
    /\ frameOps = <<>>
    /\ bakeLog = <<>>
    /\ callsSinceRequest = 0
    /\ fragment = NoFragment
    /\ lastMousePosition = InitialMousePosition
    /\ player = InitialPlayer
    /\ skyboxRotation = ZERO
    /\ previousTimeStamp = ZERO
    /\ skyBoxRotationMatrix = IDENTITY
    /\ noiseLookup = NoLookup

Init == InitWith(LoadedValues)

\* main registering its listeners before it tests the context
MainNoContext_ListenersFirst ==
    /\ pc = "load"
    /\ pc' = "aborted"
    /\ page' = [page EXCEPT !.alerts = @ + 1, !.listeners = MainListeners]
    /\ UNCHANGED <<inputValues, skyboxRenderingStage, storedSettings, noiseBase,
                   framebufferBinding, frameOps, bakeLog, callsSinceRequest, fragment, viewVars, noiseLookup>>

\* main when getContext("webgl") yields nothing: alert and return
MainNoContext ==
    /\ pc = "load"
    /\ pc' = "aborted"
    /\ page' = [page EXCEPT !.alerts = @ + 1]
    /\ UNCHANGED <<inputValues, skyboxRenderingStage, storedSettings, noiseBase,
                   framebufferBinding, frameOps, bakeLog, callsSinceRequest, fragment, viewVars, noiseLookup>>

\* main with a context: listeners registered, noise loaded, settings fetched,
\* a skybox requested and the first animation frame scheduled
Main ==
    /\ pc = "load"
    /\ pc' = "running"
    /\ page' = [page EXCEPT !.listeners = MainListeners, !.frameCallback = TRUE]
    /\ \E n \in NoiseValues : noiseBase' = loadNewNoise(n)
    /\ storedSettings' = fetchSettings(inputValues)
    /\ skyboxRenderingStage' = requestNewSkybox(skyboxRenderingStage)
    /\ callsSinceRequest' = 0
    /\ bakeLog' = <<>>
    /\ frameOps' = <<>>
    /\ UNCHANGED <<inputValues, framebufferBinding, fragment, viewVars, noiseLookup>>

\* newFrame(now): the clock and the skybox rotation advance, renderFrame bakes
\* at most one tile and presents with the world-view matrix of the camera, and
\* requestAnimationFrame(newFrame) registers the callback again
NewFrameAt(now) ==
    /\ page.frameCallback
    /\ \E r \in {renderFrame(skyboxRenderingStage, <<storedSettings, noiseBase>>,
                            framebufferBinding)} :
          /\ skyboxRenderingStage' = r.stage
          /\ frameOps' = r.ops
          /\ framebufferBinding' = r.binding
          /\ bakeLog' = bakeLog \o r.bakeOps
    /\ callsSinceRequest' = IF callsSinceRequest < MaxCalls
                            THEN callsSinceRequest + 1
                            ELSE callsSinceRequest
    /\ \E clock \in {tick(now, previousTimeStamp, skyboxRotation)} :
          /\ previousTimeStamp' = clock.previousTimeStamp
          /\ skyboxRotation' = clock.skyboxRotation
          /\ skyBoxRotationMatrix' =
                 worldViewMatrix(bakeRotationMatrix(skyboxRenderingStage, skyBoxRotationMatrix),
                                 player, clock.skyboxRotation)
    /\ UNCHANGED <<pc, page, inputValues, storedSettings, noiseBase, fragment,
                   lastMousePosition, player, noiseLookup>>

\* a frame of the scheduler specification: its clock stands at timestamp 0
NewFrame == NewFrameAt(0)

\* inputChangeHandler without the requestNewSkybox call
InputChangeTo_NoRequest(fields, strings) ==
    /\ \E f \in fields, str \in strings :
          /\ <<f, "change", "inputChangeHandler">> \in page.listeners
          /\ str # inputValues[f]
          /\ inputValues' = [inputValues EXCEPT ![f] = str]
    /\ storedSettings' = fetchSettings(inputValues')
    /\ frameOps' = <<>>
    /\ UNCHANGED <<pc, page, skyboxRenderingStage, noiseBase, framebufferBinding,
                   bakeLog, callsSinceRequest, fragment, viewVars, noiseLookup>>

\* the user commits a new value str in one of the input elements fields, and its
\* change listener runs inputChangeHandler: fetchSettings, requestNewSkybox
InputChangeTo(fields, strings) ==
    /\ \E f \in fields, str \in strings :
          /\ <<f, "change", "inputChangeHandler">> \in page.listeners
          /\ str # inputValues[f]
          /\ inputValues' = [inputValues EXCEPT ![f] = str]
    /\ storedSettings' = fetchSettings(inputValues')
    /\ skyboxRenderingStage' = requestNewSkybox(skyboxRenderingStage)
    /\ callsSinceRequest' = 0
    /\ bakeLog' = <<>>
    /\ frameOps' = <<>>
    /\ UNCHANGED <<pc, page, noiseBase, framebufferBinding, fragment, viewVars, noiseLookup>>

InputChange == InputChangeTo({"tminInput"}, TminStrings)

\* resetNoiseHandler: loadNewNoise, fetchSettings, requestNewSkybox
ResetNoise ==
    /\ <<"resetNoiseInput", "click", "resetNoiseHandler">> \in page.listeners
    /\ \E n \in NoiseValues : noiseBase' = loadNewNoise(n)
    /\ storedSettings' = fetchSettings(inputValues)
    /\ skyboxRenderingStage' = requestNewSkybox(skyboxRenderingStage)
    /\ callsSinceRequest' = 0
    /\ bakeLog' = <<>>
    /\ frameOps' = <<>>
    /\ UNCHANGED <<pc, page, inputValues, framebufferBinding, fragment, viewVars, noiseLookup>>

Next == MainNoContext \/ Main \/ NewFrame \/ InputChange \/ ResetNoise

Spec == Init /\ [][Next]_vars

\* frames keep being delivered: newFrame re-registers itself every frame
FairSpec == Spec /\ WF_vars(NewFrame)

\* ------------------------------------------------------------ camera
\* the mouse moves over the canvas to (offsetX, offsetY): updateMouse
UpdateMouse ==
    /\ <<"canvas", "mousemove", "updateMouse">> \in page.listeners
    /\ \E position \in MousePositions :
          \E r \in {updateMouse(lastMousePosition, player, position[1], position[2])} :
              /\ Abs(r.player.yawAngle) <= MaxYaw
              /\ lastMousePosition' = r.mouse
              /\ player' = r.player
    /\ UNCHANGED <<pc, page, inputValues, skyboxRenderingStage, storedSettings, noiseBase,
                   framebufferBinding, frameOps, bakeLog, callsSinceRequest, fragment,
                   skyboxRotation, previousTimeStamp, skyBoxRotationMatrix, noiseLookup>>

\* the mouse leaves the canvas: mouseLeave
MouseLeave ==
    /\ <<"canvas", "mouseleave", "mouseLeave">> \in page.listeners
    /\ lastMousePosition.inWindow
    /\ lastMousePosition' = mouseLeave(lastMousePosition)
    /\ UNCHANGED <<pc, page, inputValues, skyboxRenderingStage, storedSettings, noiseBase,
                   framebufferBinding, frameOps, bakeLog, callsSinceRequest, fragment,
                   player, skyboxRotation, previousTimeStamp, skyBoxRotationMatrix, noiseLookup>>

\* a frame at a timestamp not before the previous one
ViewFrame ==
    /\ callsSinceRequest < MaxViewFrames
    /\ \E now \in FrameTimes :
          /\ AtMost(previousTimeStamp, Times(Float(now, 0), MILLI))
          /\ NewFrameAt(now)

ViewInit == InitWith({DefaultValues})

ViewNext ==
    \/ MainNoContext
    \/ Main
    \/ ViewFrame
    \/ UpdateMouse
    \/ MouseLeave
    \/ InputChange
    \/ ResetNoise

\* the camera, the clock and the first frames after every request
ViewSpec == ViewInit /\ [][ViewNext]_vars

\* ------------------------------------------------------------ noise sampling
\* sampleDensity for one layer: noise3D(wrapVolumeCoords(stu*scale + translation))
SampleDensity ==
    /\ pc = "running"
    /\ \E x, y, z \in SampleCoordinates :
          \E wx \in wrapVolumeCoords(x), wy \in wrapVolumeCoords(y), wz \in wrapVolumeCoords(z) :
              noiseLookup' = noise3D(<<wx, wy, wz>>)
    /\ UNCHANGED <<pc, page, inputValues, skyboxRenderingStage, storedSettings, noiseBase,
                   framebufferBinding, frameOps, bakeLog, callsSinceRequest, fragment,
                   viewVars>>

NoiseInit == InitWith({DefaultValues})

NoiseNext == MainNoContext \/ Main \/ SampleDensity

\* the lattice lookups of the fragment shader
NoiseSpec == NoiseInit /\ [][NoiseNext]_vars

\* ------------------------------------------------------------ ray-march inputs
\* the strings typed into the four ray-march fields
StepStrings == {DecimalString(n) : n \in InputNumbers}

\* the page loading with any of those strings in each ray-march field
StepLoadedValues ==
    {[f \in ChangeInputs |-> IF f \in Range(StepFields) THEN g[f] ELSE DefaultValues[f]] :
        g \in [Range(StepFields) -> StepStrings]}

SettingsInit == InitWith(StepLoadedValues)

SettingsInputChange == InputChangeTo(Range(StepFields), StepStrings)

SettingsNext == MainNoContext \/ Main \/ SettingsInputChange \/ ResetNoise

\* the handlers that store settings, run before the first frame is delivered,
\* with the ray-march fields edited to any of StepStrings
SettingsSpec == SettingsInit /\ [][SettingsNext]_vars

\* ------------------------------------------------------------ colour inputs
\* longest colour string typed: "#rrggbb" has 7 characters
MaxHexLength == 7

\* strings of up to MaxHexLength characters: a valid digit, another, and an
\* upper-case letter, which the switch of hexToColor does not list
ShortAlphabet == {"0", "f", "G"}

ShortHexStrings ==
    UNION {{<<"#">> \o str : str \in [1..n -> ShortAlphabet]} : n \in 0..(MaxHexLength - 1)}
        \cup {<<>>}

\* every character the switch lists, and three it does not
LongAlphabet ==
    {"0", "1", "2", "3", "4", "5", "6", "7", "8", "9",
     "a", "b", "c", "d", "e", "f", "A", "g", " "}

\* "#rrggbb" strings with every pair of characters in each channel
PairHexStrings == {<<"#", hi, lo, lo, hi, hi, hi>> : hi \in LongAlphabet, lo \in LongAlphabet}

HexStrings == ShortHexStrings \cup PairHexStrings

\* strings the colour fields are edited to
HexEditStrings == {<<"#", "1", "2", "a", "b", "e", "f">>}

\* the page loading with any of HexStrings as the sky colour
HexLoadedValues == {[DefaultValues EXCEPT !["skyColorInput"] = str] : str \in HexStrings}

HexInit == InitWith(HexLoadedValues)

HexInputChange == InputChangeTo(Range(ColorFields), HexEditStrings)

HexNext == MainNoContext \/ Main \/ HexInputChange

\* the handlers that store colours, run before the first frame is delivered
HexSpec == HexInit /\ [][HexNext]_vars

\* ------------------------------------------------------------ shading
\* largest distance typed into the ray-march fields
MaxDistance == 2

Distances == (0 - MaxDistance)..MaxDistance

\* a page loading with these in the ray-march fields, in the slopes of layers
\* 1 and 2, in the offset of layer 2 and in the fields of the ray to the sun
ShaderValues(tmin, tdensityFalloff, tmax, stepSize, slope1, slope2, offset2, sunY, tsunMax, sunStepSize) ==
    [DefaultValues EXCEPT !["tminInput"] = DecimalString(tmin),
                          !["densityFalloffInput"] = DecimalString(tdensityFalloff),
                          !["tmaxInput"] = DecimalString(tmax),
                          !["stepSizeInput"] = DecimalString(stepSize),
                          !["noise1SlopeInput"] = DecimalString(slope1),
                          !["noise2SlopeInput"] = DecimalString(slope2),
                          !["noise2OffsetInput"] = DecimalString(offset2),
                          !["sunYInput"] = DecimalString(sunY),
                          !["tsunMaxInput"] = DecimalString(tsunMax),
                          !["sunStepSizeInput"] = DecimalString(sunStepSize)]

\* rays stepping forwards: any distances in tmin and densityFalloff, tmax at
\* either end, layers 1 and 2 both empty or both following their noise; the
\* ray to the sun passes tsunMax with its first step
ForwardValues ==
    {ShaderValues(tmin, tdensityFalloff, tmax, stepSize, slope, slope, 0, 1, 0, 1) :
        tmin \in Distances, tdensityFalloff \in Distances, tmax \in {0, MaxDistance},
        stepSize \in {1, 2}, slope \in {0, 1}}

\* rays standing still or stepping backwards, which never pass tmax, through
\* layers that are empty or full everywhere
BackwardValues ==
    {ShaderValues(tmin, 1, 0, stepSize, 0, 0, offset2, 1, 0, 1) :
        tmin \in {0, MaxDistance}, stepSize \in {0 - 1, 0}, offset2 \in {0 - 1, 1}}

\* one primary sample at the centre, with the sun on either side and a ray
\* towards it that steps forwards, stands still or steps backwards
SunValues ==
    {ShaderValues(0, 0, 0, 1, 1, 0, 0, sunY, tsunMax, sunStepSize) :
        sunY \in {0 - 1, 1}, tsunMax \in {0, MaxDistance}, sunStepSize \in {0 - 1, 0, 1}}

ShaderLoadedValues == ForwardValues \cup BackwardValues \cup SunValues

ShaderInit == InitWith(ShaderLoadedValues)

\* a draw call of renderPanelTexture starts the shader on a fragment, with the
\* uniforms it has set from the globals
FragmentStart ==
    /\ pc = "running"
    /\ fragment.state = "idle"
    /\ fragment' = raymarchingStart(storedSettings.stepSettings)
    /\ UNCHANGED <<pc, page, inputValues, skyboxRenderingStage, storedSettings, noiseBase,
                   framebufferBinding, frameOps, bakeLog, callsSinceRequest, viewVars, noiseLookup>>

\* one pass of the loop of raymarching, for any noise at the sampled positions
FragmentSample ==
    /\ fragment.state = "marching"
    /\ \E layeredValues \in {{sampleLayeredDensity(noise, storedSettings.noiseOutputSettings) :
                                 noise \in LayerNoise}} :
          \E layered \in layeredValues :
              \E falloff \in {densityFalloff(storedSettings.stepSettings, fragment.t)} :
                  \E density \in FalloffDensities(layered, falloff) :
                      \E sun \in IF density > 1
                                 THEN sunLoop(fragment.t, density, layeredValues, storedSettings)
                                 ELSE {NoSunLoop} :
                          fragment' = raymarchingStep(fragment, storedSettings.stepSettings,
                                                      layered, falloff, density, sun)
    /\ UNCHANGED <<pc, page, inputValues, skyboxRenderingStage, storedSettings, noiseBase,
                   framebufferBinding, frameOps, bakeLog, callsSinceRequest, viewVars, noiseLookup>>

ShaderNext == MainNoContext \/ Main \/ FragmentStart \/ FragmentSample

\* the page loaded with a configuration, and one fragment shaded with it
ShaderSpec == ShaderInit /\ [][ShaderNext]_vars

\* ------------------------------------------------------------ vocabulary
\* draw calls that write a face texture: those issued with the framebuffer bound
TextureWrites(ops) == SelectSeq(ops, LAMBDA o : o.target = "frameBuffer")

\* draw calls that sample a face texture: the presentation draws
TextureReads(ops) == SelectSeq(ops, LAMBDA o : o.op = "drawFace")

Requested == skyboxRenderingStage.newSkyboxRequested

InProgress ==
    /\ ~skyboxRenderingStage.newSkyboxRequested
    /\ skyboxRenderingStage.lightning < MAX_LIGHTNING_STAGES

Complete ==
    /\ ~skyboxRenderingStage.newSkyboxRequested
    /\ skyboxRenderingStage.lightning >= MAX_LIGHTNING_STAGES

Cursor(stage) == <<stage.lightning, stage.panel, stage.y, stage.x>>

\* the pixel rectangle [x0, x1) x [y0, y1) of a tile draw's viewport
Left(o) == o.viewport[1]
Bottom(o) == o.viewport[2]
Right(o) == o.viewport[1] + o.viewport[3]
Top(o) == o.viewport[2] + o.viewport[4]

InsideFace(o) ==
    /\ 0 <= Left(o) /\ Left(o) < Right(o) /\ Right(o) <= FACE_SIZE
    /\ 0 <= Bottom(o) /\ Bottom(o) < Top(o) /\ Top(o) <= FACE_SIZE

Disjoint(a, b) ==
    \/ Right(a) <= Left(b) \/ Right(b) <= Left(a)
    \/ Top(a) <= Bottom(b) \/ Top(b) <= Bottom(a)

FaceTextures == {skyBoxModels[i] : i \in 1..Len(skyBoxModels)}

\* the draws of log to texture f
DrawsOn(log, f) == {i \in 1..Len(log) : log[i].texture = f}

\* the columns (rows) of face f at which the number of draws covering a pixel can
\* change: the face's first column and every rectangle edge inside the face
EdgesX(log, f) ==
    ({0} \cup {Left(log[i]) : i \in DrawsOn(log, f)} \cup {Right(log[i]) : i \in DrawsOn(log, f)})
        \cap (0..(FACE_SIZE - 1))

EdgesY(log, f) ==
    ({0} \cup {Bottom(log[i]) : i \in DrawsOn(log, f)} \cup {Top(log[i]) : i \in DrawsOn(log, f)})
        \cap (0..(FACE_SIZE - 1))

\* how many draws of log cover pixel (px, py) of face f
TimesWritten(log, f, px, py) ==
    Cardinality({i \in DrawsOn(log, f) :
                    /\ Left(log[i]) <= px /\ px < Right(log[i])
                    /\ Bottom(log[i]) <= py /\ py < Top(log[i])})

\* every pixel of every face is written exactly once by the draws of log: between
\* two neighbouring edges the count is the same for every pixel, so it is enough
\* to count at the pixel on each crossing of a column edge and a row edge
PartitionsFaces(log) ==
    /\ \A i \in 1..Len(log) : log[i].texture \in FaceTextures /\ InsideFace(log[i])
    /\ \A i, j \in 1..Len(log) :
           (i < j /\ log[i].texture = log[j].texture) => Disjoint(log[i], log[j])
    /\ \A f \in FaceTextures :
           \A px \in EdgesX(log, f), py \in EdgesY(log, f) :
               TimesWritten(log, f, px, py) = 1

\* ------------------------------------------------------------ C1
\* C1: after a restart request, exactly FullBake (384) renderNewSkybox calls with
\* no further request have drawn FullBake tiles whose rectangles are pairwise
\* disjoint and cover each 1024x1024 face: every pixel is written exactly once.
C1_TileCoverage ==
    callsSinceRequest = FullBake =>
        /\ Len(bakeLog) = FullBake
        /\ \A i \in 1..Len(bakeLog) : bakeLog[i].target = "frameBuffer"
        /\ PartitionsFaces(bakeLog)

C1_Witness ==
    /\ callsSinceRequest = FullBake
    /\ Len(bakeLog) = FullBake
    /\ bakeLog[FullBake].texture = "nyPlane"

\* ------------------------------------------------------------ C2
RECURSIVE Advance(_, _, _, _)
\* n renderNewSkybox calls in a row: the cursor reached and the tiles drawn
Advance(stage, uniforms, binding, n) ==
    IF n = 0 THEN [stage |-> stage, ops |-> <<>>]
    ELSE LET before == Advance(stage, uniforms, binding, n - 1)
             step == renderNewSkybox(before.stage, uniforms, binding)
         IN [stage |-> step.stage, ops |-> before.ops \o step.ops]

\* C2: restart is idempotent: from every reachable state, two requests followed
\* by N calls reach the same cursor and draw the same tiles as one request
\* followed by N calls, for every N up to MaxAdvance.
C2_RestartIdempotent ==
    \A n \in 0..MaxAdvance :
        LET u == <<storedSettings, noiseBase>>
            once == Advance(requestNewSkybox(skyboxRenderingStage), u,
                            framebufferBinding, n)
            twice == Advance(requestNewSkybox(requestNewSkybox(skyboxRenderingStage)), u,
                             framebufferBinding, n)
        IN /\ once.stage = twice.stage
           /\ once.ops = twice.ops

\* a request is pending in the middle of a bake
C2_Witness ==
    /\ Requested
    /\ skyboxRenderingStage.lightning < MAX_LIGHTNING_STAGES
    /\ skyboxRenderingStage.panel = 3
    /\ Len(Advance(requestNewSkybox(skyboxRenderingStage), <<storedSettings, noiseBase>>,
                   framebufferBinding, MaxAdvance).ops) = MaxAdvance

\* ------------------------------------------------------------ C3
\* C3: the first renderNewSkybox call after a request, whatever the cursor was,
\* writes exactly one tile: tile (0,0) of panel 0 (nzPlane, the -Z face) at
\* lightning stage 0, and no tile of any other panel.
C3_FirstCallAfterRequest ==
    [][(NewFrame /\ Requested) =>
          LET w == TextureWrites(frameOps')
          IN /\ Len(w) = 1
             /\ w[1].op = "drawTile"
             /\ w[1].texture = "nzPlane"
             /\ w[1].tile = <<0, 0, 0, 0>>
             /\ w[1].viewport = <<0, 0, SKYBOX_TILE_SIZE, SKYBOX_TILE_SIZE>>]_vars

C3_Witness ==
    /\ callsSinceRequest = 1
    /\ Len(frameOps) = 7
    /\ frameOps[1].texture = "nzPlane"
    /\ frameOps[1].tile = <<0, 0, 0, 0>>
    /\ Cursor(skyboxRenderingStage) = <<0, 0, 0, 1>>

\* ------------------------------------------------------------ C4
\* C4 as stated: a call with x = MAX_X_TILES - 1 leaves x = 0 and y + 1 (or y = 0
\* and panel + 1 when y was at its maximum).
C4_EagerCarry ==
    [][(NewFrame /\ InProgress /\ skyboxRenderingStage.x = MAX_X_TILES - 1) =>
          /\ skyboxRenderingStage'.x = 0
          /\ \/ /\ skyboxRenderingStage'.y = skyboxRenderingStage.y + 1
                /\ skyboxRenderingStage'.panel = skyboxRenderingStage.panel
             \/ /\ skyboxRenderingStage.y = MAX_Y_TILES - 1
                /\ skyboxRenderingStage'.y = 0
                /\ skyboxRenderingStage'.panel = skyboxRenderingStage.panel + 1]_vars

\* C4, amended: a call with x = MAX_X_TILES - 1 draws that tile and leaves
\* x = MAX_X_TILES with y, panel and lightning as they were; the carry is applied
\* at the start of the following call, which draws the tile at x = 0 of row y + 1
\* (or of row 0 of panel + 1 when y was at its maximum) and leaves x = 1, or, when
\* the panel was the last one too, draws nothing and leaves lightning + 1 with
\* panel, y and x all 0.
C4_DeferredCarry ==
    [][(NewFrame /\ InProgress) =>
          LET s == skyboxRenderingStage
              t == skyboxRenderingStage'
              w == TextureWrites(frameOps')
          IN /\ s.x = MAX_X_TILES - 1 =>
                    /\ Cursor(t) = <<s.lightning, s.panel, s.y, MAX_X_TILES>>
                    /\ Len(w) = 1
                    /\ w[1].tile = <<s.lightning, s.panel, s.y, MAX_X_TILES - 1>>
             /\ s.x = MAX_X_TILES =>
                    IF s.y < MAX_Y_TILES - 1
                    THEN /\ Cursor(t) = <<s.lightning, s.panel, s.y + 1, 1>>
                         /\ Len(w) = 1
                         /\ w[1].tile = <<s.lightning, s.panel, s.y + 1, 0>>
                    ELSE IF s.panel < PANEL_COUNT - 1
                    THEN /\ Cursor(t) = <<s.lightning, s.panel + 1, 0, 1>>
                         /\ Len(w) = 1
                         /\ w[1].tile = <<s.lightning, s.panel + 1, 0, 0>>
                    ELSE /\ Cursor(t) = <<s.lightning + 1, 0, 0, 0>>
                         /\ Len(w) = 0]_vars

\* the call that started at x = MAX_X_TILES - 1 of the last row of a panel has run
C4_Witness ==
    /\ InProgress
    /\ Cursor(skyboxRenderingStage) = <<0, 2, MAX_Y_TILES - 1, MAX_X_TILES>>
    /\ Len(frameOps) = 7
    /\ frameOps[1].tile = <<0, 2, MAX_Y_TILES - 1, MAX_X_TILES - 1>>

\* ------------------------------------------------------------ C5
\* the tile after <<lightning, panel, y, x>> when x varies fastest, then y, then
\* panel, then lightning stage
NextTile(t) ==
    IF t[4] < MAX_X_TILES - 1 THEN <<t[1], t[2], t[3], t[4] + 1>>
    ELSE IF t[3] < MAX_Y_TILES - 1 THEN <<t[1], t[2], t[3] + 1, 0>>
    ELSE IF t[2] < PANEL_COUNT - 1 THEN <<t[1], t[2] + 1, 0, 0>>
    ELSE <<t[1] + 1, 0, 0, 0>>

\* C5: in a bake no restart request interrupts, the tiles are drawn in increasing
\* lexicographic order of (lightning, panel, y, x), starting at (0,0,0,0), each
\* the immediate successor of the one before: none skipped, none repeated.
C5_TileOrder ==
    /\ Len(bakeLog) > 0 => bakeLog[1].tile = <<0, 0, 0, 0>>
    /\ \A i \in 1..(Len(bakeLog) - 1) : bakeLog[i + 1].tile = NextTile(bakeLog[i].tile)
    /\ \A i \in 1..Len(bakeLog) :
           /\ bakeLog[i].texture = PanelToRender(bakeLog[i].tile[2])
           /\ Left(bakeLog[i]) = bakeLog[i].tile[4] * SKYBOX_TILE_SIZE
           /\ Bottom(bakeLog[i]) = bakeLog[i].tile[3] * SKYBOX_TILE_SIZE

\* a bake that has crossed a row and a panel boundary and is still running
C5_Witness ==
    /\ InProgress
    /\ Len(bakeLog) = MAX_X_TILES * MAX_Y_TILES + MAX_X_TILES + 1
    /\ bakeLog[Len(bakeLog)].tile = <<0, 1, 1, 0>>

\* ------------------------------------------------------------ C6
\* C6: with lightning >= MAX_LIGHTNING_STAGES and no request pending, a
\* renderNewSkybox call draws no tile and leaves the cursor as it was, so any
\* number of calls in a row do; the same holds of the cursor the script starts
\* with (lightning = MAX_LIGHTNING_STAGES, panel = 6, y = MAX_Y_TILES,
\* x = MAX_X_TILES).
C6_TerminalNoOp ==
    [][/\ (NewFrame /\ Complete) =>
              /\ skyboxRenderingStage' = skyboxRenderingStage
              /\ TextureWrites(frameOps') = <<>>
              /\ bakeLog' = bakeLog
       /\ LET r == renderNewSkybox(InitialStage, <<storedSettings, noiseBase>>,
                                   framebufferBinding)
          IN /\ r.stage = InitialStage
             /\ r.ops = <<>>
             /\ r.binding = framebufferBinding]_vars

\* a frame has run that started in the complete state of a finished bake
C6_Witness ==
    /\ Complete
    /\ callsSinceRequest = MaxCalls
    /\ Len(bakeLog) = FullBake
    /\ Len(frameOps) = Len(skyBoxModels)
    /\ TextureWrites(frameOps) = <<>>

\* ------------------------------------------------------------ C7
\* every tile of every face has been drawn by the bake in progress
AllTilesRendered ==
    {<<bakeLog[i].texture, bakeLog[i].tile[4], bakeLog[i].tile[3]>> : i \in 1..Len(bakeLog)}
        = FaceTextures \X (0..(MAX_X_TILES - 1)) \X (0..(MAX_Y_TILES - 1))

\* C7: with frames delivered for ever, a bake is never left unfinished unless a
\* further request arrives; FullBake (384) frames after a request every tile has
\* been drawn, the frame after that finds lightning >= MAX_LIGHTNING_STAGES,
\* and the complete state lasts until the next request.
C7_BakeCompletes ==
    /\ []<>(Complete \/ Requested)
    /\ [][/\ callsSinceRequest' >= FullBake => AllTilesRendered'
          /\ callsSinceRequest' > FullBake => Complete'
          /\ (Complete /\ ~skyboxRenderingStage'.newSkyboxRequested) => Complete']_vars

\* the frame after the last tile: the bake is complete
C7_Witness ==
    /\ pc = "running"
    /\ Complete
    /\ callsSinceRequest = FullBake + 1
    /\ AllTilesRendered

\* ------------------------------------------------------------ C8
\* C8: every step that changes the stored parameters or the noise volume leaves
\* newSkyboxRequested set; the flag stays set until the next renderNewSkybox
\* call, and that call resets the cursor before it draws: it draws the first
\* tile only, from the values now stored.
C8_MutationRestartsBake ==
    [][/\ (storedSettings' # storedSettings \/ noiseBase' # noiseBase) =>
              skyboxRenderingStage'.newSkyboxRequested
       /\ (Requested /\ ~NewFrame) => skyboxRenderingStage'.newSkyboxRequested
       /\ (Requested /\ NewFrame) =>
              /\ ~skyboxRenderingStage'.newSkyboxRequested
              /\ Cursor(skyboxRenderingStage') = <<0, 0, 0, 1>>
              /\ bakeLog' = TextureWrites(frameOps')
              /\ \A i \in 1..Len(bakeLog') :
                     bakeLog'[i].uniforms = <<storedSettings', noiseBase'>>]_vars

\* a handler has changed the stored values in the middle of a bake: a restart
\* is pending over a cursor that is part way through panel 4
C8_Witness ==
    /\ pc = "running"
    /\ Requested
    /\ frameOps = <<>>
    /\ storedSettings.stepSettings[1] = MaxSetting
    /\ noiseBase.random = MaxNoise
    /\ Cursor(skyboxRenderingStage) = <<0, 4, 2, 3>>

\* ------------------------------------------------------------ C9
\* C9: among the draw calls of a frame at most one writes a face texture, it is a
\* tile draw, and it comes before every draw that samples a face texture; the
\* sampling draws write to the canvas only.  (Handlers run to completion, so no
\* event falls between the draw calls of one frame.)
C9_WriteBeforeRead ==
    /\ Len(TextureWrites(frameOps)) <= 1
    /\ \A i, j \in 1..Len(frameOps) :
           (frameOps[i].target = "frameBuffer" /\ frameOps[j].op = "drawFace") =>
               /\ frameOps[i].op = "drawTile"
               /\ i < j
    /\ \A i \in 1..Len(frameOps) :
           frameOps[i].op = "drawTile" => frameOps[i].target = "frameBuffer"

\* a frame that drew a tile and then the six faces
C9_Witness ==
    /\ Len(frameOps) = Len(skyBoxModels) + 1
    /\ frameOps[1].op = "drawTile"
    /\ \A i \in 2..Len(frameOps) : frameOps[i].op = "drawFace"

\* ------------------------------------------------------------ C10
\* C10: every frame, whatever the bake state it starts in, draws each of the six
\* skybox faces exactly once, with that face's own texture, to the canvas.
C10_SixFacesEveryFrame ==
    [][NewFrame =>
          LET d == TextureReads(frameOps')
          IN /\ Len(d) = PANEL_COUNT
             /\ \A f \in FaceTextures :
                    Cardinality({i \in 1..Len(d) : d[i].texture = f}) = 1
             /\ \A i \in 1..Len(d) : d[i].target = "canvas"
             /\ framebufferBinding' = "canvas"]_vars

\* a frame of a bake in progress that followed a frame which bound the framebuffer
C10_Witness ==
    /\ InProgress
    /\ Len(bakeLog) > 1
    /\ Len(TextureReads(frameOps)) = PANEL_COUNT
    /\ \A i \in 1..Len(frameOps) :
           frameOps[i].op = "drawFace" => frameOps[i].target = "canvas"

\* ------------------------------------------------------------ C11
\* the pixels of face f a draw call writes: its viewport when the framebuffer is
\* bound with f attached, none otherwise
WritesInside(o, f, x0, y0, x1, y1) ==
    o.target = "frameBuffer" =>
        /\ o.texture = f
        /\ x0 <= Left(o) /\ Right(o) <= x1
        /\ y0 <= Bottom(o) /\ Top(o) <= y1

\* C11: a step that is no frame (main, a settings change, a noise reset: the
\* steps that request a restart) writes no face texture, and a frame writes at
\* most the SKYBOX_TILE_SIZE square of the one tile its renderNewSkybox call
\* renders, on that tile's face, the call that applies a pending restart
\* included: every other tile of every face keeps what an earlier bake wrote.
C11_RestartKeepsTextures ==
    [][/\ ~NewFrame => TextureWrites(frameOps') = <<>>
       /\ NewFrame =>
              LET w == TextureWrites(frameOps')
                  t == skyboxRenderingStage'
              IN /\ Len(w) <= 1
                 /\ Len(w) = 0 => bakeLog' = bakeLog
                 /\ Len(w) = 1 =>
                        /\ w[1].tile = <<t.lightning, t.panel, t.y, t.x - 1>>
                        /\ WritesInside(w[1], PanelToRender(t.panel),
                                        (t.x - 1) * SKYBOX_TILE_SIZE,
                                        t.y * SKYBOX_TILE_SIZE,
                                        t.x * SKYBOX_TILE_SIZE,
                                        (t.y + 1) * SKYBOX_TILE_SIZE)
                        /\ bakeLog' = bakeLog \o w
                 /\ Requested => Len(w) = 1 /\ w[1].tile = <<0, 0, 0, 0>>]_vars

\* a restart has just been requested with the bake part way through panel 3: the
\* handler drew nothing, and the tiles before the cursor are those of the old bake
C11_Witness ==
    /\ pc = "running"
    /\ Requested
    /\ Cursor(skyboxRenderingStage) = <<0, 3, 1, 4>>
    /\ TextureWrites(frameOps) = <<>>
    /\ bakeLog = <<>>
    /\ noiseBase.random = 1

\* ------------------------------------------------------------ C12
\* the cursor of the i-th tile of a bake that starts from a restart
TileStage(i) ==
    [newSkyboxRequested |-> FALSE,
     lightning |-> (i - 1) \div (PANEL_COUNT * MAX_Y_TILES * MAX_X_TILES),
     panel |-> ((i - 1) \div (MAX_Y_TILES * MAX_X_TILES)) % PANEL_COUNT,
     y |-> ((i - 1) \div MAX_X_TILES) % MAX_Y_TILES,
     x |-> (i - 1) % MAX_X_TILES]

\* the i-th draw of a bake as a function of the noise and the stored values alone
TileDraw(i, settings, noise) ==
    renderPanelTexture(TileStage(i).x, TileStage(i).y, PanelToRender(TileStage(i).panel),
                       TileStage(i), PanelRotation(TileStage(i).panel),
                       <<settings, noise>>)

\* C12: whatever happened before the restart (the cursor it interrupted, the
\* values and noise of earlier bakes, the framebuffer binding), the n-th draw
\* after it is a function of n, the stored values and the noise contents alone:
\* two bakes with the same values and noise issue the same draws, tile by tile,
\* with the same viewport, tile coordinates, rotation and uniforms.
C12_Determinism ==
    /\ Len(bakeLog) = IF callsSinceRequest < FullBake THEN callsSinceRequest ELSE FullBake
    /\ \A i \in 1..Len(bakeLog) : bakeLog[i] = TileDraw(i, storedSettings, noiseBase)

\* a full bake that followed an edit of the settings and a noise reset
C12_Witness ==
    /\ Complete
    /\ Len(bakeLog) = FullBake
    /\ storedSettings.stepSettings[1] = MaxSetting
    /\ noiseBase.random = MaxNoise
    /\ bakeLog[FullBake].rotation = <<"X", -90>>

\* ------------------------------------------------------------ C20
\* the cursor a renderNewSkybox call works from: zeroed when a restart is pending
Applied(stage) ==
    IF stage.newSkyboxRequested
    THEN [stage EXCEPT !.newSkyboxRequested = FALSE, !.lightning = 0, !.panel = 0,
                       !.y = 0, !.x = 0]
    ELSE stage

\* the number of tiles that come before the cursor in bake order
TilesBefore(stage) ==
    ((stage.lightning * PANEL_COUNT + stage.panel) * MAX_Y_TILES + stage.y) * MAX_X_TILES
        + stage.x

\* C20 as stated: every renderNewSkybox call that starts with
\* lightning < MAX_LIGHTNING_STAGES, a pending restart applied, draws exactly one
\* tile.
C20_OneTileEveryCall ==
    [][(NewFrame /\ Applied(skyboxRenderingStage).lightning < MAX_LIGHTNING_STAGES) =>
          Len(TextureWrites(frameOps')) = 1]_vars

\* C20, amended: a renderNewSkybox call that starts with
\* lightning < MAX_LIGHTNING_STAGES, a pending restart applied, draws exactly one
\* tile and moves the cursor one tile on, unless it starts with the cursor past
\* the last tile of the last panel (panel 5, y = MAX_Y_TILES - 1, x = MAX_X_TILES):
\* that call draws no tile and only carries the cursor to lightning + 1 with
\* panel, y and x all 0.  A bake so takes FullBake + 1 calls, the last without a
\* tile.
C20_OneTileUntilLastCarry ==
    [][(NewFrame /\ Applied(skyboxRenderingStage).lightning < MAX_LIGHTNING_STAGES) =>
          LET s == Applied(skyboxRenderingStage)
              t == skyboxRenderingStage'
              w == TextureWrites(frameOps')
          IN IF Cursor(s) = <<s.lightning, PANEL_COUNT - 1, MAX_Y_TILES - 1, MAX_X_TILES>>
             THEN /\ Len(w) = 0
                  /\ Cursor(t) = <<s.lightning + 1, 0, 0, 0>>
                  /\ TilesBefore(t) = TilesBefore(s)
             ELSE /\ Len(w) = 1
                  /\ TilesBefore(t) = TilesBefore(s) + 1
                  /\ TilesBefore(t) = Len(bakeLog')]_vars

\* the call that followed the last tile has run: it drew the faces and no tile
C20_Witness ==
    /\ callsSinceRequest = FullBake + 1
    /\ Cursor(skyboxRenderingStage) = <<MAX_LIGHTNING_STAGES, 0, 0, 0>>
    /\ Len(bakeLog) = FullBake
    /\ Len(frameOps) = Len(skyBoxModels)
    /\ \A i \in 1..Len(frameOps) : frameOps[i].op = "drawFace"

\* ------------------------------------------------------------ C16
\* C16: resetNoiseHandler uploads a whole textureDimension x textureDimension
\* image in which every byte is one the handler has just drawn (none is left
\* unassigned), and the same handler, which draws no tile, ends with the restart
\* flag set.  So the first tile drawn from the new noise is tile (0, 0) of
\* panel 0, and every tile of the bake in progress was drawn from the noise the
\* texture holds now at the cursor position counted from that reset.
C16_ResetNoiseThenRestart ==
    [][/\ ResetNoise =>
              /\ noiseBase'.unassigned = {}
              /\ noiseBase'.random \in NoiseValues
              /\ skyboxRenderingStage'.newSkyboxRequested
              /\ frameOps' = <<>>
              /\ bakeLog' = <<>>
       /\ NewFrame =>
              \A i \in 1..Len(bakeLog') :
                  /\ bakeLog'[i].uniforms[2] = noiseBase'
                  /\ bakeLog'[i].tile = Cursor(TileStage(i))]_vars

\* the noise was reset when the bake had reached row 5 of panel 1 and the
\* settings were as loaded; the restart is pending
C16_Witness ==
    /\ pc = "running"
    /\ Requested
    /\ noiseBase.random = MaxNoise
    /\ noiseBase.unassigned = {}
    /\ Cursor(skyboxRenderingStage) = <<0, 1, 5, 2>>
    /\ frameOps = <<>>

\* ------------------------------------------------------------ C15
\* C15: when main finds no WebGL context it alerts once and returns: no
\* listener is registered, no frame callback is scheduled, no skybox is
\* requested, nothing is loaded, fetched or drawn, and no handler of the script
\* can run afterwards, so nothing tries again.
C15_NoContextAborts ==
    pc = "aborted" =>
        /\ page.alerts = 1
        /\ page.listeners = {}
        /\ ~page.frameCallback
        /\ skyboxRenderingStage = InitialStage
        /\ ~skyboxRenderingStage.newSkyboxRequested
        /\ storedSettings = InitialSettings
        /\ noiseBase = NO_NOISE
        /\ frameOps = <<>>
        /\ bakeLog = <<>>
        /\ ~ENABLED Next

\* main has returned from the missing-context branch
C15_Witness ==
    /\ pc = "aborted"
    /\ page.alerts = 1
    /\ inputValues["tminInput"] = DecimalString(MaxSetting)

\* ------------------------------------------------------------ C17
\* every value the cursor record can take
Stages ==
    [newSkyboxRequested : BOOLEAN,
     lightning : 0..MAX_LIGHTNING_STAGES,
     panel : 0..PANEL_COUNT,
     y : 0..MAX_Y_TILES,
     x : 0..MAX_X_TILES]

\* the cursor after n renderNewSkybox calls in a row with the given uniforms
CursorAfter(stage, uniforms, n) ==
    LET after[s \in Stages, k \in 0..n] ==
            IF k = 0 THEN s
            ELSE renderNewSkybox(after[s, k - 1], uniforms, "canvas").stage
    IN after[stage, n]

\* the cursor after n times MAX_X_TILES renderNewSkybox calls in a row
CursorAfterRows(stage, uniforms, n) ==
    LET after[s \in Stages, k \in 0..n] ==
            IF k = 0 THEN s
            ELSE CHOOSE t \in {CursorAfter(r, uniforms, MAX_X_TILES) : r \in {after[s, k - 1]}} :
                     TRUE
    IN after[stage, n]

\* the cursor after n times MAX_Y_TILES * MAX_X_TILES renderNewSkybox calls in a row
CursorAfterPanels(stage, uniforms, n) ==
    LET after[s \in Stages, k \in 0..n] ==
            IF k = 0 THEN s
            ELSE CHOOSE t \in {CursorAfterRows(r, uniforms, MAX_Y_TILES) : r \in {after[s, k - 1]}} :
                     TRUE
    IN after[stage, n]

\* the number each ray-march field holds is the number stored for it
StoredAsTyped ==
    \A k \in 1..Len(StepFields) :
        \E n \in InputNumbers :
            /\ inputValues[StepFields[k]] = DecimalString(n)
            /\ storedSettings.stepSettings[k] = n

\* C17: whatever numbers the ray-march fields hold, ordered or not, zero or
\* negative, fetchSettings stores each of them as typed; the handler ends
\* running, without an alert, with the restart requested; and from there the
\* scheduler, given the stored values as uniforms, passes every tile in
\* FullBake calls and is complete after one more.
C17_NoValidation ==
    /\ [](pc = "running" =>
              /\ StoredAsTyped
              /\ page.alerts = 0
              /\ LET u == <<storedSettings, noiseBase>>
                     last == CursorAfterPanels(requestNewSkybox(skyboxRenderingStage), u,
                                               MAX_LIGHTNING_STAGES * PANEL_COUNT)
                     final == CursorAfter(last, u, 1)
                 IN /\ Cursor(last) = <<MAX_LIGHTNING_STAGES - 1, PANEL_COUNT - 1,
                                        MAX_Y_TILES - 1, MAX_X_TILES>>
                    /\ ~final.newSkyboxRequested
                    /\ final.lightning >= MAX_LIGHTNING_STAGES)
    /\ [][SettingsInputChange =>
              /\ pc' = "running"
              /\ page' = page
              /\ skyboxRenderingStage'.newSkyboxRequested]_vars

\* tMin above the falloff distance, that above tMax, and a negative step size
\* have been stored by a change handler
C17_Witness ==
    /\ pc = "running"
    /\ Requested
    /\ storedSettings.stepSettings = <<1, 0, 0 - 1, 0 - 1>>
    /\ inputValues["stepSizeInput"] = <<"-", "1">>

\* ------------------------------------------------------------ C18
\* C18 as stated: once the settings are fetched the stored configuration has
\* tMin < densityFalloffDistance < tMax.
C18_OrderedConfig ==
    pc = "running" =>
        /\ storedSettings.stepSettings[1] < storedSettings.stepSettings[2]
        /\ storedSettings.stepSettings[2] < storedSettings.stepSettings[3]

\* C18, amended: fetchSettings tests nothing, so once the settings are fetched
\* the stored configuration has tMin < densityFalloffDistance < tMax exactly
\* when the numbers held by tminInput, densityFalloffInput and tmaxInput are in
\* that order; any other order is stored as given.
C18_OrderedAsTyped ==
    pc = "running" =>
        \E a, b, c \in InputNumbers :
            /\ inputValues["tminInput"] = DecimalString(a)
            /\ inputValues["densityFalloffInput"] = DecimalString(b)
            /\ inputValues["tmaxInput"] = DecimalString(c)
            /\ (a < b /\ b < c) <=>
                   /\ storedSettings.stepSettings[1] < storedSettings.stepSettings[2]
                   /\ storedSettings.stepSettings[2] < storedSettings.stepSettings[3]

\* the fields hold tMin = densityFalloffDistance = 1 and tMax = 0, and that is
\* what is stored
C18_Witness ==
    /\ pc = "running"
    /\ inputValues["tminInput"] = <<"1">>
    /\ inputValues["densityFalloffInput"] = <<"1">>
    /\ inputValues["tmaxInput"] = <<"0">>
    /\ storedSettings.stepSettings[1] = 1
    /\ storedSettings.stepSettings[2] = 1
    /\ storedSettings.stepSettings[3] = 0

\* ------------------------------------------------------------ C19
LowercaseHexDigits ==
    <<"0", "1", "2", "3", "4", "5", "6", "7", "8", "9", "a", "b", "c", "d", "e", "f">>

\* the digit a character stands for, 0 when it is no lower-case hex digit
DigitOrZero(c) ==
    IF \E d \in 1..Len(LowercaseHexDigits) : LowercaseHexDigits[d] = c
    THEN (CHOOSE d \in 1..Len(LowercaseHexDigits) : LowercaseHexDigits[d] = c) - 1
    ELSE 0

\* the character at position i of hex counted from 1, "" when hex is shorter
CharOrNone(hex, i) == IF i <= Len(hex) THEN hex[i] ELSE ""

WellFormedHex(hex) ==
    /\ Len(hex) = 7
    /\ hex[1] = "#"
    /\ \A i \in 2..7 : hex[i] \in Range(LowercaseHexDigits)

\* the global each colour field is stored in
ColorOf(field) ==
    CASE field = "skyColorInput" -> storedSettings.skyColor
      [] field = "darkColorInput" -> storedSettings.darkColor
      [] field = "lightColorInput" -> storedSettings.lightColor

\* C19: for every string in a colour field hexToColor has stored three
\* channels between 0 and 1 (kept as numerators over 256); channel k is
\* (16*hi + lo)/256 for the digits hi, lo that characters 2k and 2k + 1 of the
\* string stand for, a character that is no lower-case hex digit, or is
\* missing, counting as 0; so a well-formed "#rrggbb" gives (16*hi + lo)/256 in
\* each channel and at most 255/256.
C19_HexToColor ==
    pc = "running" =>
        \A field \in Range(ColorFields) :
            LET hex == inputValues[field]
                colorVec == ColorOf(field)
            IN /\ Len(colorVec) = 3
               /\ \A k \in 1..3 :
                      /\ 0 <= colorVec[k] /\ colorVec[k] <= COLOR_SCALE
                      /\ colorVec[k] = 16 * DigitOrZero(CharOrNone(hex, 2 * k))
                                       + DigitOrZero(CharOrNone(hex, 2 * k + 1))
                      /\ WellFormedHex(hex) =>
                             /\ colorVec[k] =
                                    16 * ((CHOOSE d \in 1..16 :
                                              LowercaseHexDigits[d] = hex[2 * k]) - 1)
                                    + (CHOOSE d \in 1..16 :
                                          LowercaseHexDigits[d] = hex[2 * k + 1]) - 1
                             /\ colorVec[k] < COLOR_SCALE

\* a string that ends early and holds an upper-case letter has been stored: the
\* letter and the missing characters count as 0
C19_Witness ==
    /\ pc = "running"
    /\ inputValues["skyColorInput"] = <<"#", "f", "G", "0", "f">>
    /\ storedSettings.skyColor = <<240, 15, 0>>
    /\ inputValues["lightColorInput"] = <<"#", "1", "2", "a", "b", "e", "f">>
    /\ storedSettings.lightColor = <<18, 171, 239>>

\* ------------------------------------------------------------ C13
\* C13: whatever noise the five layers sample and whatever slopes and offsets
\* are stored, sampleLayeredDensity returns a density between 0 and 1 (0 and
\* ONE in hundredths), the density a pass of the ray march sampled was one, and
\* the alpha of cloudColor is between 0 and 1 during the march and when
\* raymarching returns it.
C13_DensityAndAlphaClamped ==
    /\ \A noise \in LayerNoise :
           sampleLayeredDensity(noise, storedSettings.noiseOutputSettings) \in 0..ONE
    /\ fragment.sample.layered \in 0..ONE
    /\ fragment.alpha \in 0..ONE

\* two layers can sum above 1, and a ray that started outside the falloff
\* radius has come back inside it, where the factor is above 1: the sample
\* weighed more than 1 and the returned alpha is 1
C13_Witness ==
    /\ fragment.state = "done"
    /\ \E noise \in LayerNoise :
           sampleLayeredDensity_NoClamp(noise, storedSettings.noiseOutputSettings) > ONE
    /\ fragment.sample.layered = ONE
    /\ fragment.sample.density > ONE
    /\ fragment.alpha = ONE

\* ------------------------------------------------------------ C14
\* the pass of the ray march that ran last scaled its sample by num/den
ScaledBy(num, den) ==
    /\ fragment.sample.falloff.den # 0
    /\ fragment.sample.falloff.num * den = num * fragment.sample.falloff.den
    /\ fragment.sample.density =
           mix(0, fragment.sample.layered, fragment.sample.falloff.num,
               fragment.sample.falloff.den)

\* the sample of the last pass lies where the ramp is claimed, and is scaled
\* as claimed: by 1 at densityFalloff, by 0 at tmin, linearly in t between
FalloffRamp ==
    LET tmin == storedSettings.stepSettings[1]
        tdensityFalloff == storedSettings.stepSettings[2]
        t == fragment.sample.t
    IN /\ t = tdensityFalloff =>
              ScaledBy(1, 1) /\ fragment.sample.density = fragment.sample.layered
       /\ t = tmin => ScaledBy(0, 1) /\ fragment.sample.density = 0
       /\ (tmin < t /\ t < tdensityFalloff) => ScaledBy(t - tmin, tdensityFalloff - tmin)

\* C14 as stated: whenever tmin < densityFalloff, a sample at t = densityFalloff
\* is scaled by 1, a sample at t = tmin by 0, and a sample strictly between by
\* (t - tmin)/(densityFalloff - tmin).
C14_FalloffBoundary ==
    (fragment.i > 0 /\ storedSettings.stepSettings[1] < storedSettings.stepSettings[2])
        => FalloffRamp

\* C14: whenever 0 <= tmin < densityFalloff, a sample at t = densityFalloff is
\* scaled by 1, a sample at t = tmin by 0, and a sample strictly between by
\* (t - tmin)/(densityFalloff - tmin). The shader measures the ramp by the
\* distances |t|, |tmin| and |densityFalloff| from the centre, which are t,
\* tmin and densityFalloff only when they are not negative.
C14_FalloffFromCentre ==
    (/\ fragment.i > 0
     /\ 0 <= storedSettings.stepSettings[1]
     /\ storedSettings.stepSettings[1] < storedSettings.stepSettings[2])
        => FalloffRamp

\* a full-density sample halfway up the ramp from tmin = 0 to densityFalloff = 2
\* has been halved
C14_Witness ==
    /\ fragment.i > 0
    /\ storedSettings.stepSettings[1] = 0
    /\ storedSettings.stepSettings[2] = 2
    /\ fragment.sample.t = 1
    /\ fragment.sample.falloff.applied
    /\ fragment.sample.layered = ONE
    /\ fragment.sample.density = ONE \div 2

\* ------------------------------------------------------------ C21
\* C21: a renderNewSkybox call that finds lightning below MAX_LIGHTNING_STAGES
\* and leaves it at MAX_LIGHTNING_STAGES or above has raised it in its carry
\* step: that call issues no draw to a face texture, adds nothing to the bake
\* log, and leaves the cursor at lightning = MAX_LIGHTNING_STAGES, panel = 0,
\* y = 0, x = 0 with no request pending.
C21_LastCarryRendersNothing ==
    [][(/\ skyboxRenderingStage.lightning < MAX_LIGHTNING_STAGES
        /\ skyboxRenderingStage'.lightning >= MAX_LIGHTNING_STAGES) =>
          /\ TextureWrites(frameOps') = <<>>
          /\ bakeLog' = bakeLog
          /\ framebufferBinding' = "canvas"
          /\ skyboxRenderingStage' =
                 [newSkyboxRequested |-> FALSE, lightning |-> MAX_LIGHTNING_STAGES,
                  panel |-> 0, y |-> 0, x |-> 0]]_vars

\* the carrying call has just run: the call before it drew the last tile of the
\* last panel, and this one drew the six faces only
C21_Witness ==
    /\ Cursor(skyboxRenderingStage) = <<MAX_LIGHTNING_STAGES, 0, 0, 0>>
    /\ ~skyboxRenderingStage.newSkyboxRequested
    /\ callsSinceRequest = FullBake + 1
    /\ bakeLog[Len(bakeLog)].tile = <<MAX_LIGHTNING_STAGES - 1, PANEL_COUNT - 1,
                                      MAX_Y_TILES - 1, MAX_X_TILES - 1>>
    /\ TextureWrites(frameOps) = <<>>
    /\ Len(frameOps) = Len(skyBoxModels)

\* ------------------------------------------------------------ C22
\* the "Error checking" tests of a renderNewSkybox call that starts from stage
\* find a negative component
NegativeBranchTaken(stage) == ClampNegative(ResetStage(stage)) # ResetStage(stage)

\* C22: in every reachable state, whatever frames, input changes and noise
\* resets led to it, x, y, panel and lightning are all at least 0 (and at most
\* MAX_X_TILES, MAX_Y_TILES, PANEL_COUNT and MAX_LIGHTNING_STAGES), and a
\* renderNewSkybox call made in that state takes none of the four branches that
\* reset a negative component.
C22_CursorNeverNegative ==
    /\ skyboxRenderingStage.x \in 0..MAX_X_TILES
    /\ skyboxRenderingStage.y \in 0..MAX_Y_TILES
    /\ skyboxRenderingStage.panel \in 0..PANEL_COUNT
    /\ skyboxRenderingStage.lightning \in 0..MAX_LIGHTNING_STAGES
    /\ ~NegativeBranchTaken(skyboxRenderingStage)
    /\ ~NegativeBranchTaken([skyboxRenderingStage EXCEPT !.newSkyboxRequested = TRUE])

\* a bake interrupted in the middle of a row of the third face by an event, and
\* the restart not yet applied
C22_Witness ==
    /\ pc = "running"
    /\ Requested
    /\ Cursor(skyboxRenderingStage) = <<0, 2, 3, 5>>
    /\ callsSinceRequest = 0
    /\ noiseBase.random = MaxNoise

\* ------------------------------------------------------------ C23
\* the face and the rotation claimed for panels 0..5: the axis the face is
\* normal to (1 = X, 2 = Y, 3 = Z) with the side it lies on, and the rotation
ClaimedFaces == <<<<3, -1>>, <<1, 1>>, <<3, 1>>, <<1, -1>>, <<2, 1>>, <<2, -1>>>>
ClaimedRotations ==
    <<<<"none", 0>>, <<"Y", -90>>, <<"Y", 180>>, <<"Y", 90>>, <<"X", 90>>, <<"X", -90>>>>

\* the point of a model's quad at pixel (px, py) of its texture, in half faces
QuadPoint(model, px, py) ==
    LET v == vertexCoordinates(model)
    IN [k \in 1..3 |-> v[1][k] * HALF_FACE + ((v[2][k] - v[1][k]) \div 2) * px
                                           + ((v[4][k] - v[1][k]) \div 2) * py]

\* C23: for each panel index 0..5 the switch selects the face claimed for it
\* (0 = -Z, 1 = +X, 2 = +Z, 3 = -X, 4 = +Y, 5 = -Y: all four vertices of the
\* selected model lie on that side) and the rotation claimed for it; that
\* rotation takes the direction of each corner of the texture, (+-1, +-1, -1)
\* before the rotation, to the vertex of the face's quad whose UV is that
\* corner; and the tile draw of every frame was issued to that face with that
\* rotation, which takes the directions of the tile's four corners to the
\* points of the quad at the tile's corners.
C23_FaceMapping ==
    /\ \A p \in 0..(PANEL_COUNT - 1) :
           LET model == PanelToRender(p) IN
           /\ model = skyBoxModels[p + 1]
           /\ \A i \in 1..4 :
                  vertexCoordinates(model)[i][ClaimedFaces[p + 1][1]] = ClaimedFaces[p + 1][2]
           /\ PanelRotation(p) = ClaimedRotations[p + 1]
           /\ \A i \in 1..4 :
                  /\ frameBufferModel[i] = <<2 * uvValues[i][1] - 1, 2 * uvValues[i][2] - 1>>
                  /\ rotate(PanelRotation(p),
                            vertexPosition(frameBufferModel[i], <<0, 0, FACE_SIZE, FACE_SIZE>>))
                         = [k \in 1..3 |-> vertexCoordinates(model)[i][k] * HALF_FACE]
    /\ \A n \in 1..Len(TextureWrites(frameOps)) :
           LET o == TextureWrites(frameOps)[n] IN
           /\ o.texture = skyBoxModels[o.tile[2] + 1]
           /\ o.rotation = ClaimedRotations[o.tile[2] + 1]
           /\ \A i \in 1..4 :
                  rotate(o.rotation, vertexPosition(frameBufferModel[i], o.tileCoordinates))
                      = QuadPoint(o.texture,
                                  IF frameBufferModel[i][1] < 0 THEN Left(o) ELSE Right(o),
                                  IF frameBufferModel[i][2] < 0 THEN Bottom(o) ELSE Top(o))

\* a frame has drawn a tile in the last row of the -X face, rotated about Y by
\* 90 degrees
C23_Witness ==
    /\ Len(TextureWrites(frameOps)) = 1
    /\ frameOps[1].texture = "nxPlane"
    /\ frameOps[1].rotation = <<"Y", 90>>
    /\ frameOps[1].tile = <<0, 3, MAX_Y_TILES - 1, 2>>
    /\ rotate(frameOps[1].rotation, vertexPosition(<<1, 1>>, frameOps[1].tileCoordinates))
           = <<0 - HALF_FACE, HALF_FACE, HALF_FACE - 3 * SKYBOX_TILE_SIZE>>

\* ------------------------------------------------------------ C24
\* C24: for every configuration, with stepSize or sunStepSize zero or negative
\* and with tmax below tmin among them, every pass of the primary loop adds 1
\* to a count that never exceeds MAX_SAMPLES (200), the loop towards the sun
\* makes at most MAX_SUN_SAMPLES (50) passes for a primary sample, each with
\* at most one sample; the march goes on only while alpha is below 1, t has
\* not passed tmax and fewer than 200 samples were taken, and it is over,
\* with no further pass possible, as soon as one of the three fails.
C24_RayMarchTerminates ==
    /\ [](/\ fragment.i \in 0..MAX_SAMPLES
          /\ fragment.sample.sun.passes \in 0..MAX_SUN_SAMPLES
          /\ fragment.sample.sun.samples \in 0..fragment.sample.sun.passes
          /\ (fragment.state = "marching" /\ fragment.i > 0) =>
                 /\ fragment.alpha < ONE
                 /\ fragment.t <= storedSettings.stepSettings[3]
                 /\ fragment.i < MAX_SAMPLES
          /\ fragment.state = "done" =>
                 /\ fragment.i >= 1
                 /\ \/ fragment.alpha = ONE
                    \/ fragment.t > storedSettings.stepSettings[3]
                    \/ fragment.i = MAX_SAMPLES
          /\ fragment.state = "marching" <=> ENABLED FragmentSample)
    /\ [][(fragment.state = "marching" /\ fragment' # fragment) =>
              fragment'.i = fragment.i + 1]_vars

\* a ray that steps backwards through an empty sky has stopped after
\* MAX_SAMPLES samples, short of tmax and with alpha 0
C24_Witness ==
    /\ fragment.state = "done"
    /\ fragment.i = MAX_SAMPLES
    /\ storedSettings.stepSettings[4] < 0
    /\ fragment.t = storedSettings.stepSettings[1] - MAX_SAMPLES
    /\ fragment.t <= storedSettings.stepSettings[3]
    /\ fragment.alpha = 0

\* ------------------------------------------------------------ C25
\* the steps of the handlers other than newFrame
MouseStep == lastMousePosition' # lastMousePosition \/ player' # player
RequestStep == inputValues' # inputValues \/ noiseBase' # noiseBase

\* C25: the cursor belongs to the scheduler.  requestNewSkybox, called in any
\* reachable state, changes only newSkyboxRequested; the mouse handlers leave the whole
\* skyboxRenderingStage alone; main, the input handlers and the noise reset
\* change nothing of it but the flag; the presentation loop of renderFrame
\* leaves the cursor as renderNewSkybox left it; so a cursor component changes
\* only in a step in which renderNewSkybox ran, and to the value it computed.
C25_CursorOwnedByScheduler ==
    /\ [](/\ requestNewSkybox(skyboxRenderingStage)
                = [skyboxRenderingStage EXCEPT !.newSkyboxRequested = TRUE]
          /\ renderFrame(skyboxRenderingStage, <<storedSettings, noiseBase>>,
                         framebufferBinding).stage
                = renderNewSkybox(skyboxRenderingStage, <<storedSettings, noiseBase>>,
                                  framebufferBinding).stage)
    /\ [][/\ MouseStep => skyboxRenderingStage' = skyboxRenderingStage
          /\ RequestStep =>
                 /\ Cursor(skyboxRenderingStage') = Cursor(skyboxRenderingStage)
                 /\ skyboxRenderingStage'.newSkyboxRequested
          /\ Cursor(skyboxRenderingStage') # Cursor(skyboxRenderingStage) =>
                 /\ callsSinceRequest' = callsSinceRequest + 1
                 /\ skyboxRenderingStage'
                       = renderNewSkybox(skyboxRenderingStage, <<storedSettings, noiseBase>>,
                                         framebufferBinding).stage]_vars

\* a request made by an input handler two tiles into a bake, after the mouse
\* has pitched the camera to its limit: the cursor still stands at the third tile
C25_Witness ==
    /\ skyboxRenderingStage.newSkyboxRequested
    /\ Cursor(skyboxRenderingStage) = <<0, 0, 0, 2>>
    /\ player.pitchAngle = piOver2
    /\ lastMousePosition.inWindow
    /\ callsSinceRequest = 0

\* ------------------------------------------------------------ C26
\* draw i of the log is the last one written to its tile
LastWrite(log, i) ==
    \A j \in (i + 1)..Len(log) :
        log[j].texture # log[i].texture \/ log[j].viewport # log[i].viewport

\* C26: once main has run, whenever the bake is complete (lightning >=
\* MAX_LIGHTNING_STAGES, no request pending) the draws since the latest
\* request have written every tile of every face, and the last draw of each
\* tile used the parameter values and the noise contents stored now, however
\* frames, input changes and noise resets were interleaved before.
C26_FinishedBakeIsCurrent ==
    (pc = "running" /\ Complete) =>
        /\ AllTilesRendered
        /\ \A i \in 1..Len(bakeLog) :
               LastWrite(bakeLog, i) => bakeLog[i].uniforms = <<storedSettings, noiseBase>>

\* a complete bake of the settings and noise that the handlers stored last
C26_Witness ==
    /\ pc = "running"
    /\ Complete
    /\ callsSinceRequest = MaxCalls
    /\ storedSettings.stepSettings[1] = MaxSetting
    /\ noiseBase.random = MaxNoise
    /\ Len(bakeLog) = FullBake
    /\ bakeLog[FullBake].uniforms = <<storedSettings, noiseBase>>

\* ------------------------------------------------------------ C27
\* the cursor renderNewSkybox switches on: after the reset and the carries
Carried(stage) == Carry(ClampNegative(ResetStage(stage)))

\* C27: every renderPanelTexture call has 0 <= xIndex < MAX_X_TILES, 0 <=
\* yIndex < MAX_Y_TILES and the model of a panel index in 0..5, and its
\* viewport, the tile at (xIndex, yIndex), lies inside the 1024x1024 face; a
\* renderNewSkybox call that gets past the two lightning tests never falls
\* into the default case of the panel switch: it draws one tile.
C27_TileArgumentsInRange ==
    /\ [](\A i \in 1..Len(frameOps) :
              frameOps[i].op = "drawTile" =>
                  /\ frameOps[i].tile[4] \in 0..(MAX_X_TILES - 1)
                  /\ frameOps[i].tile[3] \in 0..(MAX_Y_TILES - 1)
                  /\ frameOps[i].tile[2] \in 0..(PANEL_COUNT - 1)
                  /\ frameOps[i].texture = skyBoxModels[frameOps[i].tile[2] + 1]
                  /\ frameOps[i].viewport
                        = <<frameOps[i].tile[4] * SKYBOX_TILE_SIZE,
                            frameOps[i].tile[3] * SKYBOX_TILE_SIZE,
                            SKYBOX_TILE_SIZE, SKYBOX_TILE_SIZE>>
                  /\ Right(frameOps[i]) <= FACE_SIZE
                  /\ Top(frameOps[i]) <= FACE_SIZE
                  /\ Left(frameOps[i]) >= 0
                  /\ Bottom(frameOps[i]) >= 0)
    /\ [][(NewFrame /\ Carried(skyboxRenderingStage).lightning < MAX_LIGHTNING_STAGES) =>
              /\ PanelToRender(Carried(skyboxRenderingStage).panel) # "none"
              /\ Len(TextureWrites(frameOps')) = 1
              /\ frameOps'[1].tile = Cursor(Carried(skyboxRenderingStage))]_vars

\* the tile in the far corner of the last panel has just been drawn
C27_Witness ==
    /\ Len(frameOps) > 0
    /\ frameOps[1].op = "drawTile"
    /\ frameOps[1].tile = <<0, PANEL_COUNT - 1, MAX_Y_TILES - 1, MAX_X_TILES - 1>>
    /\ frameOps[1].viewport = <<FACE_SIZE - SKYBOX_TILE_SIZE, FACE_SIZE - SKYBOX_TILE_SIZE,
                                SKYBOX_TILE_SIZE, SKYBOX_TILE_SIZE>>

\* ------------------------------------------------------------ C28
\* the value of a number of the clock, in units of 2^-30
Scaled(a) == a.m * 2^(a.e + 30)

\* skyboxRotationSpeed x previousTimeStamp without rounding, in units of 2^-30
ExactRotation == skyboxRotationSpeed.m * previousTimeStamp.m
                     * 2^(skyboxRotationSpeed.e + previousTimeStamp.e + 30)

\* the frames that can advance the clock: one for every timestamp after 0
AdvancingFrames == Cardinality(FrameTimes \ {0})

\* C28 as stated: after any sequence of frames skyboxRotation equals
\* skyboxRotationSpeed x tn, the latest timestamp in seconds, whatever the
\* number of frames.
C28_RotationIsSpeedTimesTime ==
    skyboxRotation = Times(skyboxRotationSpeed, previousTimeStamp)

\* C28 amended: skyboxRotation never decreases; previousTimeStamp is the latest
\* timestamp in seconds; a frame at the timestamp of the frame before leaves
\* the rotation as it is; the first frame that advances the clock sets it to
\* the rounded product skyboxRotationSpeed x t1; and after n advancing frames
\* it is the rounded running sum of the increments, which is within a
\* relative error of 3n roundings (3n / 2^PRECISION) of skyboxRotationSpeed x tn.
C28_RotationFollowsClock ==
    /\ [](/\ \E now \in FrameTimes : previousTimeStamp = Times(Float(now, 0), MILLI)
          /\ LET distance == IF Scaled(skyboxRotation) < ExactRotation
                             THEN ExactRotation - Scaled(skyboxRotation)
                             ELSE Scaled(skyboxRotation) - ExactRotation
             IN distance * 2^PRECISION <= 3 * AdvancingFrames * ExactRotation)
    /\ [][/\ AtMost(skyboxRotation, skyboxRotation')
          /\ previousTimeStamp' = previousTimeStamp => skyboxRotation' = skyboxRotation
          /\ (previousTimeStamp = ZERO /\ skyboxRotation = ZERO) =>
                 skyboxRotation' = Times(skyboxRotationSpeed, previousTimeStamp')]_vars

\* frames at MaxTime - 1 and MaxTime milliseconds: the sum of the two rounded
\* increments is not the rounded product for MaxTime
C28_Witness ==
    /\ previousTimeStamp = Times(Float(MaxTime, 0), MILLI)
    /\ skyboxRotation
          = Plus(Times(skyboxRotationSpeed, Times(Float(MaxTime - 1, 0), MILLI)),
                 Times(skyboxRotationSpeed, MILLI))
    /\ skyboxRotation # Times(skyboxRotationSpeed, previousTimeStamp)

\* ------------------------------------------------------------ C29
\* the lattice points of the noise volume and the texels of its texture
Lattice == (0..(noiseBaseDimension - 1)) \X (0..(noiseBaseDimension - 1))
               \X (0..(noiseBaseDimension - 1))
Texels == (0..(textureDimension - 1)) \X (0..(textureDimension - 1))
LatticeTexels == {vol3D(p) : p \in Lattice}

\* vol3D sends lattice point (i, j, k) to texel ((k mod 4)*16 + i, (k div 4)*16 + j),
\* no two lattice points to one texel, and some lattice point to every texel
LatticeEncoding ==
    /\ textureDimension = noiseBaseRowLength * noiseBaseDimension
    /\ noiseBaseRowLength * noiseBaseRowLength >= noiseBaseDimension
    /\ \A p \in Lattice :
           vol3D(p) = <<(p[3] % 4) * 16 + p[1], (p[3] \div 4) * 16 + p[2]>>
    /\ Cardinality(LatticeTexels) = Cardinality(Lattice)
    /\ LatticeTexels = Texels

\* the eight corners of the lookup are lattice points
CornersInLattice ==
    \A d \in DOMAIN noiseLookup.corners : noiseLookup.corners[d] \in Lattice

\* C29 as stated: the encoding of the 16x16x16 volume in the 64x64 texture is
\* a bijection (lattice point (i, j, k) at texel ((k mod 4)*16 + i, (k div 4)*16
\* + j), distinct points at distinct texels, every texel hit), and all eight
\* corner indices noise3D looks up are in 0..15 after the wrap-around.
C29_EncodingAndCornersInRange ==
    /\ LatticeEncoding
    /\ CornersInLattice

\* C29, the part that holds: the encoding is a bijection, and a lookup whose
\* wrapped coordinate is below 1 on every axis reads eight lattice points,
\* the corners of its cell with index 16 wrapped to 0.
C29_EncodingBijective ==
    /\ LatticeEncoding
    /\ (\A a \in 1..3 : noiseLookup.stu[a] < COORD_ONE) =>
           /\ CornersInLattice
           /\ \A d \in DOMAIN noiseLookup.corners : \A a \in 1..3 :
                  noiseLookup.corners[d][a] = (noiseLookup.stu_i[a] + d[a]) % noiseBaseDimension

\* a coordinate just below 0 on the x axis was wrapped to 1.0: stu_i.x is 16
\* and the corner i000 is read from column 16 of its slice, which is column 0
\* of the next slice
C29_Witness ==
    /\ noiseLookup.corners # <<>>
    /\ noiseLookup.stu = <<COORD_ONE, 0, 0>>
    /\ noiseLookup.corners[<<0, 0, 0>>] = <<noiseBaseDimension, 0, 0>>
    /\ noiseLookup.corners[<<1, 0, 0>>] = <<1, 0, 0>>
    /\ vol3D(noiseLookup.corners[<<0, 0, 0>>]) = vol3D(<<0, 0, 1>>)

\* ------------------------------------------------------------ C30
\* the world-view matrix of a camera at p and a skybox turned by rotation: the
\* identity turned about X by the negated pitch, then about Y by the negated
\* yaw and by the negated skybox rotation
ExpectedWorldView(p, rotation) ==
    <<<<"X", Negated(p.pitchAngle)>>, <<"Y", Negated(p.yawAngle)>>,
      <<"Y", Negated(rotation)>>>>

\* the matrix of a face rotation alone
FaceMatrix(rotation) ==
    IF rotation[1] = "none" THEN IDENTITY
    ELSE <<<<rotation[1], [degrees |-> rotation[2]]>>>>

\* cameras and skybox rotations the presentation is evaluated for
CameraValues ==
    [yawAngle : {0 - MaxYaw, 0, MaxYaw}, pitchAngle : {0 - piOver2, 0, piOver2}]
RotationValues == {ZERO, skyboxRotationSpeed, Plus(skyboxRotationSpeed, skyboxRotationSpeed)}

\* C30: skyBoxRotationMatrix carries nothing from the bake into the
\* presentation or back.  In every reachable state, whatever the coming
\* renderNewSkybox does (draw a tile of any face, or return early), the
\* world-view matrix renderFrame computes after it is the one of pitch, yaw
\* and skyboxRotation alone, for every camera; a tile is drawn with the
\* rotation of its face alone, whatever matrix the frame before left; and
\* after every frame the matrix is the world view of that frame's camera.
C30_MatrixDoesNotLeak ==
    /\ [](/\ \A p \in CameraValues, rotation \in RotationValues :
                worldViewMatrix(bakeRotationMatrix(skyboxRenderingStage, skyBoxRotationMatrix),
                                p, rotation)
                    = ExpectedWorldView(p, rotation)
          /\ \A o \in Range(renderNewSkybox(skyboxRenderingStage, <<storedSettings, noiseBase>>,
                                            framebufferBinding).ops) :
                bakeRotationMatrix(skyboxRenderingStage, skyBoxRotationMatrix)
                    = FaceMatrix(o.rotation))
    /\ [][NewFrame =>
              skyBoxRotationMatrix' = ExpectedWorldView(player', skyboxRotation')]_vars

\* the frame that drew the last tile of the bottom face left the world view of
\* the camera in the matrix, not the rotation of that face
C30_Witness ==
    /\ skyBoxRotationMatrix = ExpectedWorldView(player, skyboxRotation)
    /\ TextureWrites(frameOps) # <<>>
    /\ frameOps[1].rotation = <<"X", 0 - 90>>
    /\ Cursor(skyboxRenderingStage) = <<0, PANEL_COUNT - 1, MAX_Y_TILES - 1, MAX_X_TILES>>

=============================================================================
